---------------------------- MODULE Spec2Model ----------------------------
(***************************************************************************)
(* A model of the Ticl core of google-cache-invalidation-api:              *)
(*   - the Throttle (v2/throttle.h) driven by the DeterministicScheduler,  *)
(*   - the InvalidationClientImpl orchestrator                             *)
(*     (invalidation-client-impl.cc) with its session, registration,       *)
(*     network and persistence managers.                                   *)
(* Collaborators whose implementation files are not part of the source     *)
(* tree (throttle.cc, session-manager, registration-update-manager,        *)
(* network-manager, persistence-manager, ForgetClientId) follow the        *)
(* component descriptions of the specification document.                   *)
(***************************************************************************)
EXTENDS Integers, Sequences, FiniteSets, TLC

(***************************************************************************)
(* Bounds of the model.                                                    *)
(***************************************************************************)
\* Last instant of the throttle's clock.
MaxTime == 9
\* Register/Unregister calls the application makes.
MaxCalls == 3
\* Restarts of the client process.
MaxRestarts == 1
\* Fresh uniquifiers / session tokens the server hands out.
MaxIds == 2
\* Invalidations the server sends (deliveries to the listener).
MaxDeliveries == 1
\* Times the listener runs one ack callback.
MaxAckCalls == 2
\* Listener tasks / state writes outstanding when the environment acts.
MaxQueue == 1
\* Fire() calls counted while one retry is armed.
MaxSwallowed == 2
\* Longest storm of Fire() calls, in minutes.
MaxMinutes == 5
\* Invalidations dispatched from loaded bundles.
MaxBundled == 2
\* Largest number of objects with a pending registration op.
MaxPending == 3
\* Largest number of acknowledgements waiting or on their way to the queue.
MaxBacklog == 3

(***************************************************************************)
(* Throttle state (v2/throttle.h) and the scheduler it runs against.       *)
(***************************************************************************)
VARIABLES
  rate_limits_,          \* vector<RateLimit>: sequence of [w, c]
  recent_event_times_,   \* deque<Time>
  timer_scheduled_,      \* bool
  current_time_,         \* DeterministicScheduler::current_time_
  work_queue_,           \* scheduled RetryFire tasks: sequence of due times
  call_times,            \* history: the instants the listener was invoked at
  swallowed,             \* history: Fire() calls dropped since the retry was armed
  last_fire              \* output of the last step: what Fire()/RetryFire() did

throttleVars == <<rate_limits_, recent_event_times_, timer_scheduled_,
                  current_time_, work_queue_, call_times, swallowed,
                  last_fire>>

(***************************************************************************)
(* InvalidationClientImpl and its collaborators.                           *)
(***************************************************************************)
VARIABLES
  awaiting_seqno_writeback_,    \* InvalidationClientImpl: bool
  pending_invalidation_acks_,   \* InvalidationClientImpl: vector<Invalidation>
  session_state,                \* SessionManager: state
  client_uniquifier,            \* SessionManager: uniquifier (0: empty)
  session_token,                \* SessionManager: session token (0: empty)
  shutdown_sent,                \* SessionManager: TYPE_SHUTDOWN was emitted
  registrations_,               \* RegistrationUpdateManager: oid -> record
  current_op_seqno_,            \* RegistrationUpdateManager
  maximum_op_seqno_inclusive_,  \* RegistrationUpdateManager
  heartbeat_due,                \* NetworkManager: a heartbeat or poll is due
  heartbeat_interval,           \* NetworkManager: server-controlled interval
  polling_interval,             \* NetworkManager: server-controlled interval
  outbound_signalled,           \* NetworkManager: outbound listener notified
  storage,                      \* persistence medium: the stored bytes
  pending_writes,               \* PersistenceManager: writes not yet committed
  internal_tasks,               \* scheduler: immediate AcknowledgeInvalidation tasks
  periodic_tasks,               \* scheduler: outstanding PeriodicTask closures
  listener_queue,               \* resources: tasks for the listener thread
  held_callbacks,               \* listener: deliveries whose ack callback it holds
  ack_calls,                    \* listener: times it ran each ack callback
  received_under,               \* history: the session token each delivery arrived under
  next_delivery,                \* history: deliveries made so far
  next_id,                      \* server: next fresh uniquifier / token
  incarnation,                  \* history: restarts so far
  restart_blob,                 \* history: the blob this incarnation started from
  writeback_result,             \* history: outcome of the claim-next-block write
  app_calls,                    \* history: Register/Unregister calls made
  shutdown_called,              \* history: PermanentShutdown() was called
  high_water,                   \* history: largest op_seqno assigned per client id
  prior_max,                    \* history: high_water as it was at the last restart
  assigned_high,                \* history: largest op_seqno this instance assigned
  status_told,                  \* history: the last SessionStatusChanged this instance scheduled
  sent_persisted_id,            \* history: a message carried the restart blob's id
  wire_acks,                    \* history: acked entries emitted per delivery
  last_assigned,                \* output of the last step: the op_seqno it assigned
  last_dropped,                 \* output of the last step: it dropped an inbound message
  last_ignored,                 \* output of the last step: it classified a message IGNORE_MESSAGE
  last_forgot,                  \* output of the last step: it ran ForgetClientId()
  last_out                      \* output of the last step: the message it emitted

clientVars == <<awaiting_seqno_writeback_, pending_invalidation_acks_,
                session_state, client_uniquifier, session_token, shutdown_sent,
                registrations_, current_op_seqno_, maximum_op_seqno_inclusive_,
                heartbeat_due, heartbeat_interval, polling_interval,
                outbound_signalled, storage, pending_writes, internal_tasks,
                periodic_tasks, listener_queue, held_callbacks, ack_calls,
                received_under,
                next_delivery, next_id, incarnation, restart_blob,
                writeback_result, app_calls, shutdown_called, high_water, prior_max,
                assigned_high, status_told, sent_persisted_id,
                wire_acks, last_assigned, last_dropped, last_ignored, last_forgot,
                last_out>>

(***************************************************************************)
(* OperationScheduler state (v2/operation-scheduler.h) and the external    *)
(* scheduler it hands its callbacks to.                                    *)
(***************************************************************************)
VARIABLES
  operations_,           \* map<Closure*, OperationScheduleInfo>
  scheduled_,            \* external scheduler: RunAndClearScheduled callbacks
  last_coalesced,        \* output of the last step: Schedule() found op pending
  check_failed,          \* a CHECK of the scheduler failed: the process is gone
  last_run               \* output of the last step: the closure it ran and what that scheduled

opVars == <<operations_, scheduled_, last_coalesced, check_failed, last_run>>

(***************************************************************************)
(* The script of ThrottleTest.ThrottlingStorm (v2/test/throttle_test.cc).  *)
(***************************************************************************)
VARIABLES
  storm_pc,              \* position in the loop body; "off" outside the test
  storm_i,               \* the loop counter i
  duration_minutes       \* length of the storm

stormVars == <<storm_pc, storm_i, duration_minutes>>

(***************************************************************************)
(* The lock of InvalidationClientImpl and the threads that call into it.   *)
(***************************************************************************)
VARIABLES
  lock_,                 \* Mutex lock_: the thread that holds it, or "none"
  thread_pc              \* per thread: the call it is in and how far it got

lockVars == <<lock_, thread_pc>>

vars == <<throttleVars, clientVars, opVars, stormVars, lockVars>>

\* Rate-limit configurations explored: (window_size, count) pairs.  The
\* second one has the shape of the default limits (a short window allowing
\* one call and a long window allowing several).
RateLimit(w, c) == [window_size |-> w, count |-> c]

RateLimitConfigs ==
  { <<RateLimit(3, 2)>>,
    <<RateLimit(2, 1), RateLimit(6, 3)>>,
    <<RateLimit(1, 1), RateLimit(4, 2)>> }

MaxOf(S) == CHOOSE x \in S : \A y \in S : y <= x

\* max_recent_events_: the largest 'count' of the configured limits.
max_recent_events_ == MaxOf({rate_limits_[i].count : i \in DOMAIN rate_limits_})

LargestWindow == MaxOf({rate_limits_[i].window_size : i \in DOMAIN rate_limits_})

RECURSIVE DropOlder(_, _)
\* Step 1 of Fire(): drop the timestamps older than the largest window.
DropOlder(recent, now) ==
  IF recent = <<>> THEN <<>>
  ELSE IF now - Head(recent) > LargestWindow
       THEN DropOlder(Tail(recent), now)
       ELSE recent

\* The limits (by index) that a listener call at 'now' would violate.
ViolatedLimits(recent, now) ==
  { i \in DOMAIN rate_limits_ :
      /\ Len(recent) >= rate_limits_[i].count
      /\ now - recent[Len(recent) - rate_limits_[i].count + 1]
           < rate_limits_[i].window_size }

MinOf(S) == CHOOSE x \in S : \A y \in S : x <= y

\* A retry instant at which only the first of the violated limits is
\* satisfied again.
EarliestLegalOfAny(recent, now) ==
  MinOf({ recent[Len(recent) - rate_limits_[i].count + 1]
            + rate_limits_[i].window_size : i \in ViolatedLimits(recent, now) })

\* The earliest instant at which no currently violated limit is violated.
EarliestLegal(recent, now) ==
  MaxOf({ recent[Len(recent) - rate_limits_[i].count + 1]
            + rate_limits_[i].window_size : i \in ViolatedLimits(recent, now) })

\* Appending to the ring buffer of the last max_recent_events_ firing times.
PushRecent(recent, now) ==
  IF Len(recent) >= max_recent_events_
  THEN Append(Tail(recent), now)
  ELSE Append(recent, now)

\* Scheduler::Schedule(delay, task): the task is queued for now + delay.
Schedule(queue, due) == Append(queue, due)

\* Throttle::Fire(), entered with timer_scheduled_ = timer and the scheduler's
\* queue = queue.
FireBody(timer, queue) ==
  LET now    == current_time_
      recent == DropOlder(recent_event_times_, now)
  IN IF ViolatedLimits(recent, now) = {}
     THEN /\ recent_event_times_' = PushRecent(recent, now)
          /\ call_times' = Append(call_times, now)
          /\ timer_scheduled_' = timer
          /\ work_queue_' = queue
     ELSE /\ recent_event_times_' = recent
          /\ call_times' = call_times
          /\ IF ~timer
             THEN /\ timer_scheduled_' = TRUE
                  /\ work_queue_' = Schedule(queue, EarliestLegal(recent, now))
             ELSE /\ timer_scheduled_' = timer
                  /\ work_queue_' = queue

\* What a run of Fire() did, read off the listener's history and the queue.
Outcome(calls, calls_after, queue, queue_after) ==
  IF calls_after # calls THEN "invoked"
  ELSE IF Len(queue_after) > Len(queue) THEN "armed"
  ELSE "dropped"

Swallowed(outcome) ==
  CASE outcome = "armed" -> 0
    [] outcome = "dropped" ->
         IF swallowed < MaxSwallowed THEN swallowed + 1 ELSE swallowed
    [] OTHER -> swallowed

\* One call of Throttle::Fire().
FireCall ==
  /\ FireBody(timer_scheduled_, work_queue_)
  /\ LET outcome == Outcome(call_times, call_times', work_queue_, work_queue_')
     IN /\ last_fire' = outcome
        /\ swallowed' = Swallowed(outcome)
  /\ UNCHANGED <<rate_limits_, current_time_>>

\* A caller invokes Throttle::Fire().
Fire ==
  /\ FireCall
  /\ UNCHANGED <<clientVars, opVars, stormVars, lockVars>>

\* The index of the task RunNextTask() takes: the least due time, and among
\* equal times the one enqueued first.
NextTaskIndex(queue) ==
  CHOOSE i \in DOMAIN queue :
    \A j \in DOMAIN queue :
      queue[i] < queue[j] \/ (queue[i] = queue[j] /\ i <= j)

RemoveAt(s, i) == SubSeq(s, 1, i - 1) \o SubSeq(s, i + 1, Len(s))

\* A faulty retry that calls the listener without asking Fire() again.
RetryFireUnchecked ==
  /\ work_queue_ # <<>>
  /\ LET i == NextTaskIndex(work_queue_)
     IN /\ work_queue_[i] <= current_time_
        /\ work_queue_' = RemoveAt(work_queue_, i)
  /\ timer_scheduled_' = FALSE
  /\ recent_event_times_' = PushRecent(recent_event_times_, current_time_)
  /\ call_times' = Append(call_times, current_time_)
  /\ last_fire' = "retry_invoked"
  /\ UNCHANGED swallowed
  /\ UNCHANGED <<rate_limits_, current_time_, clientVars, opVars, stormVars, lockVars>>

\* A retry that clears timer_scheduled_ and never calls Fire().
RetryFireForgets ==
  /\ work_queue_ # <<>>
  /\ LET i == NextTaskIndex(work_queue_)
     IN /\ work_queue_[i] <= current_time_
        /\ work_queue_' = RemoveAt(work_queue_, i)
  /\ timer_scheduled_' = FALSE
  /\ last_fire' = "retry_dropped"
  /\ UNCHANGED <<rate_limits_, recent_event_times_, current_time_, call_times,
                 swallowed, clientVars, opVars, stormVars, lockVars>>

\* A retry that calls Fire() without clearing timer_scheduled_ first.
RetryFireKeepsTimer ==
  /\ work_queue_ # <<>>
  /\ LET i == NextTaskIndex(work_queue_)
     IN /\ work_queue_[i] <= current_time_
        /\ FireBody(TRUE, RemoveAt(work_queue_, i))
        /\ LET outcome == Outcome(call_times, call_times',
                                  RemoveAt(work_queue_, i), work_queue_')
           IN /\ last_fire' = "retry_" \o outcome
              /\ swallowed' = Swallowed(outcome)
  /\ UNCHANGED <<rate_limits_, current_time_, clientVars, opVars, stormVars, lockVars>>

\* A retry task that leaves timer_scheduled_ set when it calls Fire().
RetryFireTaskKeepsTimer ==
  /\ work_queue_ # <<>>
  /\ LET i == NextTaskIndex(work_queue_)
     IN /\ work_queue_[i] <= current_time_
        /\ FireBody(TRUE, RemoveAt(work_queue_, i))
        /\ LET outcome == Outcome(call_times, call_times',
                                  RemoveAt(work_queue_, i), work_queue_')
           IN /\ last_fire' = "retry_" \o outcome
              /\ swallowed' = Swallowed(outcome)
  /\ UNCHANGED <<rate_limits_, current_time_>>

\* DeterministicScheduler::RunNextTask() runs the scheduled Throttle::RetryFire():
\* the task is due, is taken off the queue, clears timer_scheduled_ and
\* calls Fire().
RetryFireTask ==
  /\ work_queue_ # <<>>
  /\ LET i == NextTaskIndex(work_queue_)
     IN /\ work_queue_[i] <= current_time_
        /\ FireBody(FALSE, RemoveAt(work_queue_, i))
        /\ LET outcome == Outcome(call_times, call_times',
                                  RemoveAt(work_queue_, i), work_queue_')
           IN /\ last_fire' = "retry_" \o outcome
              /\ swallowed' = Swallowed(outcome)
  /\ UNCHANGED <<rate_limits_, current_time_>>

\* The scheduler runs the retry.
RetryFire ==
  /\ RetryFireTask
  /\ UNCHANGED <<clientVars, opVars, stormVars, lockVars>>

\* DeterministicScheduler::ModifyTime: the clock advances.
ModifyTime ==
  /\ current_time_ < MaxTime
  /\ current_time_' = current_time_ + 1
  /\ last_fire' = "none"
  /\ UNCHANGED <<rate_limits_, recent_event_times_, timer_scheduled_,
                 work_queue_, call_times, swallowed, clientVars, opVars, stormVars, lockVars>>

ThrottleInit ==
  /\ rate_limits_ \in RateLimitConfigs
  /\ recent_event_times_ = <<>>
  /\ timer_scheduled_ = FALSE
  /\ current_time_ = 0
  /\ work_queue_ = <<>>
  /\ call_times = <<>>
  /\ swallowed = 0
  /\ last_fire = "none"

ThrottleNext == Fire \/ RetryFire \/ ModifyTime

(***************************************************************************)
(* ThrottleTest.ThrottlingStorm: Fire() every ten milliseconds.  One unit  *)
(* of the clock is the test's fine_interval (10 ms).                       *)
(***************************************************************************)
\* fine_interval units in one second and in one minute.
UnitsPerSecond == 100
UnitsPerMinute == 6000

\* ThrottleTest::kMessagesPerSecond and kMessagesPerMinute.
kMessagesPerSecond == 1
kMessagesPerMinute == 6

\* num_iterations = duration / fine_interval.
num_iterations == duration_minutes * UnitsPerMinute

\* throttle->Fire();
StormFire ==
  /\ storm_pc = "fire"
  /\ FireCall
  /\ storm_pc' = "modify_time"
  /\ UNCHANGED <<storm_i, duration_minutes, clientVars, opVars, lockVars>>

\* scheduler_->ModifyTime(fine_interval);
StormModifyTime ==
  /\ storm_pc = "modify_time"
  /\ current_time_' = current_time_ + 1
  /\ last_fire' = "none"
  /\ storm_pc' = "run_ready_tasks"
  /\ UNCHANGED <<rate_limits_, recent_event_times_, timer_scheduled_,
                 work_queue_, call_times, swallowed, storm_i,
                 duration_minutes, clientVars, opVars, lockVars>>

\* scheduler_->RunReadyTasks(): RunNextTask() found a task that is due.
StormRunNextTask ==
  /\ storm_pc = "run_ready_tasks"
  /\ RetryFireTask
  /\ UNCHANGED <<stormVars, clientVars, opVars, lockVars>>

\* RunNextTask() found nothing due: RunReadyTasks() returns, ++i, and the
\* loop goes on or ends.
StormNextIteration ==
  /\ storm_pc = "run_ready_tasks"
  /\ IF work_queue_ = <<>> THEN TRUE
     ELSE work_queue_[NextTaskIndex(work_queue_)] > current_time_
  /\ storm_i' = storm_i + 1
  /\ storm_pc' = IF storm_i + 1 < num_iterations THEN "fire" ELSE "done"
  /\ last_fire' = "none"
  /\ UNCHANGED <<rate_limits_, recent_event_times_, timer_scheduled_,
                 current_time_, work_queue_, call_times, swallowed,
                 duration_minutes, clientVars, opVars, lockVars>>

StormNext ==
  \/ StormFire
  \/ StormModifyTime
  \/ StormRunNextTask
  \/ StormNextIteration

\* Outside the storm test.
StormOff ==
  /\ storm_pc = "off"
  /\ storm_i = 0
  /\ duration_minutes = 0

(***************************************************************************)
(* OperationScheduler (v2/operation-scheduler.cc).                         *)
(***************************************************************************)
\* The closures the client registers.
Operations == {"op1", "op2"}

\* Nominal delays, in milliseconds.
Delays == {5, 10}

\* Smearer::kDefaultSmearPercent.
kDefaultSmearPercent == 20

\* Smearer::GetSmearedDelay: delay * (1 + f) truncated to whole
\* milliseconds, for a factor f drawn from [-smear, +smear).
GetSmearedDelay(delay) ==
  LET lo == (delay * (100 - kDefaultSmearPercent)) \div 100
      top == delay * (100 + kDefaultSmearPercent)
      hi == IF top % 100 = 0 THEN (top \div 100) - 1 ELSE top \div 100
  IN  lo .. hi

\* An operation SetOperation has not been called for.
NotSet == [is_set |-> FALSE]

\* OperationScheduleInfo(delay, name): has_been_scheduled starts false.
OperationScheduleInfo(delay) ==
  [is_set |-> TRUE, delay |-> delay, has_been_scheduled |-> FALSE]

\* No closure ran.
NoRun == [operation |-> "none", again |-> "none"]

\* The scheduler object: the map and the callbacks it has handed out.
OpState ==
  [operations |-> operations_, scheduled |-> scheduled_, fatal |-> check_failed,
   ran |-> NoRun]

\* A null Closure*.
NULL == "NULL"

\* operations_.find(operation) != operations_.end().
Found(o, operation) ==
  operation \in DOMAIN o.operations /\ o.operations[operation].is_set

\* SetOperation without the CHECK of the delay.
SetOperationAnyDelay(o, delay, operation) ==
  IF ~Found(o, operation) /\ operation # NULL
  THEN [o EXCEPT !.operations[operation] = OperationScheduleInfo(delay)]
  ELSE [o EXCEPT !.fatal = TRUE]

\* OperationScheduler::SetOperation: a failed CHECK ends the process before
\* the map is touched.
SetOperation(o, delay, operation) ==
  IF /\ ~Found(o, operation)
     /\ delay > 0
     /\ operation # NULL
  THEN [o EXCEPT !.operations[operation] = OperationScheduleInfo(delay)]
  ELSE [o EXCEPT !.fatal = TRUE]

\* OperationScheduler::ChangeDelayForTest.
ChangeDelayForTest(o, operation, delay) ==
  [o EXCEPT !.operations[operation].delay = delay]

\* Schedule without the has_been_scheduled test.
ScheduleOperationAlways(o, operation, smeared) ==
  [o EXCEPT !.operations[operation].has_been_scheduled = TRUE,
            !.scheduled = Append(@, [operation |-> operation,
                                     delay |-> smeared])]

\* OperationScheduler::Schedule; smeared is the smearer's draw.
ScheduleOperation(o, operation, smeared) ==
  IF ~o.operations[operation].has_been_scheduled
  THEN [o EXCEPT !.operations[operation].has_been_scheduled = TRUE,
                 !.scheduled = Append(@, [operation |-> operation,
                                          delay |-> smeared])]
  ELSE o

\* A RunAndClearScheduled that clears the flag after the closure has run, as
\* the comment in the header has it.
RunThenClearScheduled(o, operation) == o

\* OperationScheduler::RunAndClearScheduled, up to closure->Run().
RunAndClearScheduled(o, operation) ==
  [o EXCEPT !.operations[operation].has_been_scheduled = FALSE]

\* The sequence q without its i-th element.
WithoutTask(q, i) ==
  [k \in 1 .. Len(q) - 1 |-> IF k < i THEN q[k] ELSE q[k + 1]]

OpCommit(o, coalesced) ==
  /\ operations_' = o.operations
  /\ scheduled_' = o.scheduled
  /\ last_coalesced' = coalesced
  /\ check_failed' = o.fatal
  /\ last_run' = o.ran
  /\ UNCHANGED <<throttleVars, clientVars, stormVars, lockVars>>

\* The delays and closures callers hand to SetOperation.
GivenDelays == Delays \cup {0, -5}
GivenOperations == Operations \cup {NULL}

SetOperationCall ==
  \E operation \in GivenOperations, delay \in GivenDelays :
    /\ ~check_failed
    /\ OpCommit(SetOperation(OpState, delay, operation), FALSE)

ChangeDelayCall ==
  \E operation \in Operations, delay \in Delays :
    /\ ~check_failed
    /\ operations_[operation].is_set
    /\ OpCommit(ChangeDelayForTest(OpState, operation, delay), FALSE)

ScheduleCall ==
  \E operation \in Operations :
    /\ ~check_failed
    /\ operations_[operation].is_set
    /\ \E smeared \in GetSmearedDelay(operations_[operation].delay) :
         OpCommit(ScheduleOperation(OpState, operation, smeared),
                  operations_[operation].has_been_scheduled)

\* The scheduler as the closure of the i-th callback finds it when it runs:
\* the callback is gone from the external scheduler and
\* RunAndClearScheduled has reached closure->Run().
DuringRun(o, i) ==
  LET operation == o.scheduled[i].operation
      taken == [o EXCEPT !.scheduled = WithoutTask(@, i),
                         !.ran = [operation |-> operation, again |-> "none"]]
  IN RunAndClearScheduled(taken, operation)

\* The external scheduler runs one of the callbacks it holds: the flag is
\* cleared, then the closure runs; the closure may schedule an operation
\* (itself included) again.
RunScheduledTask ==
  \E i \in 1 .. Len(scheduled_) :
    ~check_failed /\
    LET operation == scheduled_[i].operation
        cleared == DuringRun(OpState, i)
    IN  \/ OpCommit(cleared, FALSE)
        \/ \E again \in Operations :
             /\ cleared.operations[again].is_set
             /\ \E smeared \in
                    GetSmearedDelay(cleared.operations[again].delay) :
                  OpCommit([ScheduleOperation(cleared, again, smeared)
                              EXCEPT !.ran.again = again],
                           cleared.operations[again].has_been_scheduled)

OperationSchedulerInit ==
  /\ operations_ = [operation \in Operations |-> NotSet]
  /\ scheduled_ = <<>>
  /\ last_coalesced = FALSE
  /\ check_failed = FALSE
  /\ last_run = NoRun

OperationSchedulerNext ==
  \/ SetOperationCall
  \/ ChangeDelayCall
  \/ ScheduleCall
  \/ RunScheduledTask


(***************************************************************************)
(* The client: configuration and data.                                     *)
(***************************************************************************)
\* RegistrationUpdateManager::kFirstSequenceNumber.
kFirstSequenceNumber == 1
\* ClientConfig::seqno_block_size.
seqno_block_size == 2
\* ClientConfig::max_ops_per_message.
max_ops_per_message == 2

\* Objects the application registers for.
Oids == {"a"}

\* Object ids of the invalidations the server sends.  The internal-source
\* object named "ALL" is INVALIDATE_ALL_OBJECT_NAME.
INVALIDATE_ALL_OBJECT_NAME == "ALL"
InvalidationObjectIds ==
  { [source |-> "INTERNAL", name |-> INVALIDATE_ALL_OBJECT_NAME],
    [source |-> "USER", name |-> "a"] }

\* TiclState: the decoded persistent state blob.
TiclState(u, t, l) ==
  [uniquifier |-> u, session_token |-> t, sequence_number_limit |-> l]

\* SerializeState / DeserializeState: the stored bytes are modelled as a
\* tagged tuple; anything that is not one does not parse.
SerializeState(state) ==
  <<"TiclState", state.uniquifier, state.session_token, state.sequence_number_limit>>

EmptyBytes == <<>>
MalformedBytes == <<"garbage">>

DeserializeOk(bytes) == Len(bytes) = 4 /\ bytes[1] = "TiclState"

DeserializeState(bytes) == TiclState(bytes[2], bytes[3], bytes[4])

NoBlob == TiclState(0, 0, 0)

NoRecord == [desired |-> "NONE", confirmed |-> "UNKNOWN", op_seqno |-> 0,
             pending |-> FALSE]

NoMessage == [message_type |-> "NONE"]

NoAssignment == [uniquifier |-> 0, seqno |-> 0]

\* The largest op_seqno an instance has assigned since it was constructed
\* and since its last ForgetClientId(): 0 when it has assigned none.
NeverAssigned == [lifetime |-> 0, since_forget |-> 0]

\* The last SessionStatusChanged an instance scheduled for its listener
\* ("none" before the first), and whether that one broke the alternation:
\* it repeated the one before it, or was a first SessionStatusChanged(false).
NeverTold == [last |-> "none", repeated |-> FALSE]

\* The client's state as one record; the operations below are state
\* transformers over it, composed as the code composes its calls.  The two
\* output fields start every step empty.
State ==
  [ awaiting |-> awaiting_seqno_writeback_,
    acks |-> pending_invalidation_acks_,
    sstate |-> session_state,
    uniquifier |-> client_uniquifier,
    token |-> session_token,
    shutdown_sent |-> shutdown_sent,
    regs |-> registrations_,
    cur |-> current_op_seqno_,
    max |-> maximum_op_seqno_inclusive_,
    hb_due |-> heartbeat_due,
    hb_interval |-> heartbeat_interval,
    poll_interval |-> polling_interval,
    signalled |-> outbound_signalled,
    storage |-> storage,
    writes |-> pending_writes,
    itasks |-> internal_tasks,
    ptasks |-> periodic_tasks,
    lqueue |-> listener_queue,
    held |-> held_callbacks,
    ack_calls |-> ack_calls,
    received_under |-> received_under,
    next_delivery |-> next_delivery,
    next_id |-> next_id,
    incarnation |-> incarnation,
    restart_blob |-> restart_blob,
    wb_result |-> writeback_result,
    app_calls |-> app_calls,
    shutdown_called |-> shutdown_called,
    high_water |-> high_water,
    prior_max |-> prior_max,
    assigned_high |-> assigned_high,
    told |-> status_told,
    sent_persisted_id |-> sent_persisted_id,
    wire_acks |-> wire_acks,
    last_assigned |-> NoAssignment,
    last_dropped |-> FALSE,
    last_ignored |-> FALSE,
    last_forgot |-> FALSE,
    last_out |-> NoMessage ]

\* The next state is the record s.
Commit(s) ==
  /\ awaiting_seqno_writeback_' = s.awaiting
  /\ pending_invalidation_acks_' = s.acks
  /\ session_state' = s.sstate
  /\ client_uniquifier' = s.uniquifier
  /\ session_token' = s.token
  /\ shutdown_sent' = s.shutdown_sent
  /\ registrations_' = s.regs
  /\ current_op_seqno_' = s.cur
  /\ maximum_op_seqno_inclusive_' = s.max
  /\ heartbeat_due' = s.hb_due
  /\ heartbeat_interval' = s.hb_interval
  /\ polling_interval' = s.poll_interval
  /\ outbound_signalled' = s.signalled
  /\ storage' = s.storage
  /\ pending_writes' = s.writes
  /\ internal_tasks' = s.itasks
  /\ periodic_tasks' = s.ptasks
  /\ listener_queue' = s.lqueue
  /\ held_callbacks' = s.held
  /\ ack_calls' = s.ack_calls
  /\ received_under' = s.received_under
  /\ next_delivery' = s.next_delivery
  /\ next_id' = s.next_id
  /\ incarnation' = s.incarnation
  /\ restart_blob' = s.restart_blob
  /\ writeback_result' = s.wb_result
  /\ app_calls' = s.app_calls
  /\ shutdown_called' = s.shutdown_called
  /\ high_water' = s.high_water
  /\ prior_max' = s.prior_max
  /\ assigned_high' = s.assigned_high
  /\ status_told' = s.told
  /\ sent_persisted_id' = s.sent_persisted_id
  /\ wire_acks' = s.wire_acks
  /\ last_assigned' = s.last_assigned
  /\ last_dropped' = s.last_dropped
  /\ last_ignored' = s.last_ignored
  /\ last_forgot' = s.last_forgot
  /\ last_out' = s.last_out

\* SystemResources::ScheduleOnListenerThread(task).
ScheduleOnListenerThread(s, task) ==
  [s EXCEPT !.lqueue = Append(@, task),
            !.told = IF task.callback = "SessionStatusChanged"
                     THEN LET now == IF task.arg THEN "acquired" ELSE "lost"
                          IN [last |-> now,
                              repeated |-> \/ now = @.last
                                           \/ (@.last = "none" /\ now = "lost")]
                     ELSE @]

SessionStatusChanged(b) == [callback |-> "SessionStatusChanged", arg |-> b]

(***************************************************************************)
(* SessionManager.                                                         *)
(***************************************************************************)
\* SessionManager(config, client_type, app_name, resources, uniquifier,
\* session_token): a client constructed with a persisted uniquifier and
\* token has its session already.
SessionManagerInitialState(u, t) ==
  IF u = 0 THEN "NO_CLIENT_ID"
  ELSE IF t = 0 THEN "HAVE_CLIENT_ID_NO_SESSION"
  ELSE "HAVE_SESSION"

SessionHasSession(s) == s.sstate = "HAVE_SESSION"

\* SessionManager::HasDataToSend().
SessionHasDataToSend(s) ==
  \/ s.sstate = "NO_CLIENT_ID"
  \/ s.sstate = "HAVE_CLIENT_ID_NO_SESSION"
  \/ (s.sstate = "SHUTDOWN" /\ ~s.shutdown_sent)

\* SessionManager::Shutdown().
SessionShutdown(s) ==
  IF s.sstate = "SHUTDOWN" THEN s ELSE [s EXCEPT !.sstate = "SHUTDOWN"]

\* SessionManager::ProcessMessage(bundle): the action the message is
\* classified as (the state machine table).
MessageAction(s, m) ==
  CASE s.sstate = "SHUTDOWN" -> "IGNORE_MESSAGE"
    [] m.message_type = "ASSIGN_CLIENT_ID" /\ s.sstate = "NO_CLIENT_ID"
         -> "ACQUIRE_SESSION"
    [] m.message_type = "UPDATE_SESSION" /\ s.sstate = "HAVE_CLIENT_ID_NO_SESSION"
         /\ m.uniquifier = s.uniquifier
         -> "ACQUIRE_SESSION"
    [] m.message_type = "INVALIDATE_CLIENT_ID"
         /\ s.sstate \in {"HAVE_SESSION", "HAVE_CLIENT_ID_NO_SESSION"}
         /\ m.uniquifier = s.uniquifier
         -> "LOSE_CLIENT_ID"
    [] m.message_type = "INVALIDATE_SESSION" /\ s.sstate = "HAVE_SESSION"
         /\ m.token = s.token
         -> "LOSE_SESSION"
    [] m.message_type = "OBJECT_CONTROL" /\ s.sstate = "HAVE_SESSION"
         /\ m.token = s.token
         -> "PROCESS_OBJECT_CONTROL"
    [] OTHER -> "IGNORE_MESSAGE"

\* SessionManager::ProcessMessage(bundle): the state after classification.
ProcessMessage(s, m) ==
  LET action == MessageAction(s, m)
  IN CASE action = "ACQUIRE_SESSION" ->
            [s EXCEPT !.sstate = "HAVE_SESSION",
                      !.uniquifier = m.uniquifier,
                      !.token = m.token]
       [] action = "LOSE_CLIENT_ID" ->
            [s EXCEPT !.sstate = "NO_CLIENT_ID", !.uniquifier = 0, !.token = 0]
       [] action = "LOSE_SESSION" ->
            [s EXCEPT !.sstate = "HAVE_CLIENT_ID_NO_SESSION", !.token = 0]
       [] OTHER -> s

\* SessionManager::AddSessionAction(&message): the message type the session
\* layer sets, "NONE" when it sets none.
SessionActionType(s) ==
  CASE s.sstate = "SHUTDOWN" /\ ~s.shutdown_sent -> "TYPE_SHUTDOWN"
    [] s.sstate = "NO_CLIENT_ID" -> "TYPE_ASSIGN_CLIENT_ID"
    [] s.sstate = "HAVE_CLIENT_ID_NO_SESSION" -> "TYPE_UPDATE_SESSION"
    [] OTHER -> "NONE"

AddSessionAction(s) ==
  IF s.sstate = "SHUTDOWN" THEN [s EXCEPT !.shutdown_sent = TRUE] ELSE s

(***************************************************************************)
(* RegistrationUpdateManager.                                              *)
(***************************************************************************)
\* RegistrationUpdateManager(resources, config, initial_seqno, listener).
RegistrationManagerInit(s, initial_seqno) ==
  [s EXCEPT !.regs = [o \in Oids |-> NoRecord],
            !.cur = initial_seqno,
            !.max = initial_seqno]

UpdateMaximumSeqno(s, limit) == [s EXCEPT !.max = limit]

\* A Register/Unregister that assigns current_op_seqno without advancing it.
SetDesiredKeepsCounter(s, oid, op) ==
  LET rec == s.regs[oid]
  IN IF rec.confirmed = op
     THEN [s EXCEPT !.regs[oid] = [rec EXCEPT !.desired = op, !.pending = FALSE]]
     ELSE [s EXCEPT !.regs[oid] = [rec EXCEPT !.desired = op,
                                              !.op_seqno = s.cur,
                                              !.pending = TRUE],
                    !.last_assigned = [uniquifier |-> s.uniquifier, seqno |-> s.cur],
                    !.assigned_high = [lifetime |-> MaxOf({@.lifetime, s.cur}),
                                       since_forget |-> MaxOf({@.since_forget, s.cur})],
                    !.high_water = IF s.uniquifier # 0 /\ s.cur > @[s.uniquifier]
                                   THEN [@ EXCEPT ![s.uniquifier] = s.cur]
                                   ELSE @]

\* Register(oid) / Unregister(oid): op is "REGISTER" or "UNREGISTER".
SetDesired(s, oid, op) ==
  LET rec == s.regs[oid]
  IN IF rec.confirmed = op
     THEN [s EXCEPT !.regs[oid] = [rec EXCEPT !.desired = op, !.pending = FALSE]]
     ELSE [s EXCEPT !.regs[oid] = [rec EXCEPT !.desired = op,
                                              !.op_seqno = s.cur,
                                              !.pending = TRUE],
                    !.cur = s.cur + 1,
                    !.last_assigned = [uniquifier |-> s.uniquifier, seqno |-> s.cur],
                    !.assigned_high = [lifetime |-> MaxOf({@.lifetime, s.cur}),
                                       since_forget |-> MaxOf({@.since_forget, s.cur})],
                    !.high_water = IF s.uniquifier # 0 /\ s.cur > @[s.uniquifier]
                                   THEN [@ EXCEPT ![s.uniquifier] = s.cur]
                                   ELSE @]

\* RegistrationUpdateManager::HandleNewSession().
RegHandleNewSession(s) ==
  [s EXCEPT !.regs = [o \in Oids |->
      IF s.regs[o].desired = "NONE" THEN s.regs[o]
      ELSE [s.regs[o] EXCEPT !.confirmed = "UNKNOWN",
                             !.pending = (s.regs[o].desired = "REGISTER")
                                           \/ s.regs[o].pending]]]

\* RegistrationUpdateManager::HandleLostSession().
RegHandleLostSession(s) == RegHandleNewSession(s)

PendingOids(s) == {o \in DOMAIN s.regs : s.regs[o].pending}

\* RegistrationUpdateManager::DoPeriodicRegistrationCheck().
DoPeriodicRegistrationCheck(s) == PendingOids(s) # {}

\* The pending records in ascending op_seqno (ties: by object name).
Before(s, o1, o2) ==
  \/ s.regs[o1].op_seqno < s.regs[o2].op_seqno
  \/ (s.regs[o1].op_seqno = s.regs[o2].op_seqno /\ o1 = "a" /\ o2 = "b")

RECURSIVE SortedPending(_, _)
SortedPending(s, left) ==
  IF left = {} THEN <<>>
  ELSE LET first == CHOOSE o \in left : \A p \in left \ {o} : Before(s, o, p)
       IN <<first>> \o SortedPending(s, left \ {first})

FirstN(seq, n) == SubSeq(seq, 1, IF Len(seq) < n THEN Len(seq) ELSE n)

\* RegistrationUpdateManager::AddOutboundData(&message): the register
\* operations put into the message.
RegisterOperations(s) ==
  LET chosen == FirstN(SortedPending(s, PendingOids(s)), max_ops_per_message)
  IN [i \in DOMAIN chosen |->
        [oid |-> chosen[i],
         op |-> s.regs[chosen[i]].desired,
         op_seqno |-> s.regs[chosen[i]].op_seqno]]

\* A status handler that confirms nothing.
ApplyStatusIgnored(s, st) == s

\* A status handler that confirms a record and leaves its op pending.
ApplyStatusLeavesPending(s, st) ==
  LET rec == s.regs[st.oid]
  IN IF rec.pending /\ st.success /\ st.op_seqno = rec.op_seqno
     THEN [s EXCEPT !.regs[st.oid] = [rec EXCEPT !.confirmed = rec.desired]]
     ELSE s

\* A status handler that does not compare sequence numbers.
ApplyStatusAnySeqno(s, st) ==
  LET rec == s.regs[st.oid]
  IN IF rec.pending /\ st.success
     THEN [s EXCEPT !.regs[st.oid] = [rec EXCEPT !.confirmed = rec.desired,
                                                 !.pending = FALSE]]
     ELSE s

\* RegistrationUpdateManager::ProcessInboundMessage(bundle): one
\* registration-status entry.
ApplyStatus(s, st) ==
  LET rec == s.regs[st.oid]
  IN IF rec.pending /\ st.success /\ st.op_seqno = rec.op_seqno
     THEN [s EXCEPT !.regs[st.oid] = [rec EXCEPT !.confirmed = rec.desired,
                                                 !.pending = FALSE]]
     ELSE s

RECURSIVE RegProcessInboundMessage(_, _)
RegProcessInboundMessage(s, statuses) ==
  IF statuses = <<>> THEN s
  ELSE RegProcessInboundMessage(ApplyStatus(s, Head(statuses)), Tail(statuses))

(***************************************************************************)
(* NetworkManager and PersistenceManager.                                  *)
(***************************************************************************)
\* NetworkManager::HasDataToSend().
NetworkHasDataToSend(s) == s.hb_due

\* NetworkManager::OutboundDataReady(): the outbound listener is told that a
\* message can be taken.
OutboundDataReady(s) == [s EXCEPT !.signalled = TRUE]

\* NetworkManager::RecordImplicitHeartbeat().
RecordImplicitHeartbeat(s) == [s EXCEPT !.hb_due = FALSE]

\* NetworkManager::HandleInboundMessage(bundle): take over the intervals
\* the server sent (0: the bundle carries none).
NetworkHandleInboundMessage(s, m) ==
  [s EXCEPT !.hb_interval = IF m.next_message_delay # 0
                            THEN m.next_message_delay ELSE @,
            !.poll_interval = IF m.polling_interval # 0
                              THEN m.polling_interval ELSE @]

\* PersistenceManager::WriteState(bytes, callback).
WriteState(s, bytes, callback, arg) ==
  [s EXCEPT !.writes = Append(@, [bytes |-> bytes, callback |-> callback,
                                  arg |-> arg])]

(***************************************************************************)
(* InvalidationClientImpl.                                                 *)
(***************************************************************************)
\* InvalidationClientImpl::ForgetClientId(): the session is reset to
\* NO_CLIENT_ID and a fresh block of sequence numbers is taken.
ForgetClientId(s) ==
  [s EXCEPT !.sstate = "NO_CLIENT_ID",
            !.uniquifier = 0,
            !.token = 0,
            !.cur = kFirstSequenceNumber,
            !.max = seqno_block_size,
            !.assigned_high = [@ EXCEPT !.since_forget = 0],
            !.last_forgot = TRUE]

\* InvalidationClientImpl::AllocateNewSequenceNumbers(persistent_state).
AllocateNewSequenceNumbers(s, persistent_state) ==
  LET maximum_op_seqno_inclusive ==
        persistent_state.sequence_number_limit + seqno_block_size
      new_state == [persistent_state EXCEPT
                      !.sequence_number_limit = maximum_op_seqno_inclusive]
  IN WriteState([s EXCEPT !.awaiting = TRUE, !.wb_result = "in_flight"],
                SerializeState(new_state),
                "HandleSeqnoWritebackResult", maximum_op_seqno_inclusive)

\* A writeback result handler that adopts the new maximum whatever the
\* outcome of the write.
HandleSeqnoWritebackResultAlways(s, maximum_op_seqno_inclusive, success) ==
  UpdateMaximumSeqno([s EXCEPT !.awaiting = FALSE,
                               !.wb_result = IF success THEN "success" ELSE "failure"],
                     maximum_op_seqno_inclusive)

\* InvalidationClientImpl::HandleSeqnoWritebackResult(max, success).
HandleSeqnoWritebackResult(s, maximum_op_seqno_inclusive, success) ==
  LET s1 == [s EXCEPT !.awaiting = FALSE,
                      !.wb_result = IF success THEN "success" ELSE "failure"]
  IN IF success
     THEN UpdateMaximumSeqno(s1, maximum_op_seqno_inclusive)
     ELSE ForgetClientId(s1)

\* A best-effort write handler that treats a failed write as the sequence
\* number writeback does.
HandleBestEffortWriteForgets(s, result) ==
  IF result THEN s ELSE ForgetClientId(s)

\* InvalidationClientImpl::HandleBestEffortWrite(result): logs only.
HandleBestEffortWrite(s, result) == s

\* A constructor that writes a state blob back on a fresh start as well.
ConstructorClaimsBlock(env, serialized_state) ==
  LET persistent == DeserializeOk(serialized_state)
      persistent_state == IF persistent THEN DeserializeState(serialized_state)
                          ELSE NoBlob
      uniquifier == IF persistent THEN persistent_state.uniquifier ELSE 0
      token == IF persistent THEN persistent_state.session_token ELSE 0
      initial_seqno == IF persistent THEN persistent_state.sequence_number_limit
                       ELSE kFirstSequenceNumber
      s0 == [env EXCEPT !.awaiting = FALSE,
                        !.acks = <<>>,
                        !.sstate = SessionManagerInitialState(uniquifier, token),
                        !.uniquifier = uniquifier,
                        !.token = token,
                        !.shutdown_sent = FALSE,
                        !.hb_due = FALSE,
                        !.hb_interval = 1,
                        !.poll_interval = 1,
                        !.signalled = FALSE,
                        !.writes = <<>>,
                        !.itasks = <<>>,
                        !.ptasks = 0,
                        !.lqueue = <<>>,
                        !.held = {},
                        !.restart_blob = persistent_state,
                        !.wb_result = "none",
                        !.shutdown_called = FALSE,
                        !.prior_max = env.high_water,
                        !.assigned_high = NeverAssigned,
                        !.told = NeverTold,
                        !.sent_persisted_id = FALSE]
      s1 == RegistrationManagerInit(s0, initial_seqno)
      s2 == IF persistent
            THEN AllocateNewSequenceNumbers(
                   ScheduleOnListenerThread(RegHandleNewSession(s1),
                                            SessionStatusChanged(TRUE)),
                   persistent_state)
            ELSE AllocateNewSequenceNumbers(s1, NoBlob)
  IN [s2 EXCEPT !.ptasks = @ + 1]

\* InvalidationClientImpl::InvalidationClientImpl(..., serialized_state, ...):
\* the state of a client constructed in an environment whose persistent and
\* history parts are those of 'env'.
Constructor(env, serialized_state) ==
  LET persistent == DeserializeOk(serialized_state)
      persistent_state == IF persistent THEN DeserializeState(serialized_state)
                          ELSE NoBlob
      uniquifier == IF persistent THEN persistent_state.uniquifier ELSE 0
      token == IF persistent THEN persistent_state.session_token ELSE 0
      initial_seqno == IF persistent THEN persistent_state.sequence_number_limit
                       ELSE kFirstSequenceNumber
      s0 == [env EXCEPT !.awaiting = FALSE,
                        !.acks = <<>>,
                        !.sstate = SessionManagerInitialState(uniquifier, token),
                        !.uniquifier = uniquifier,
                        !.token = token,
                        !.shutdown_sent = FALSE,
                        !.hb_due = FALSE,
                        !.hb_interval = 1,
                        !.poll_interval = 1,
                        !.signalled = FALSE,
                        !.writes = <<>>,
                        !.itasks = <<>>,
                        !.ptasks = 0,
                        !.lqueue = <<>>,
                        !.held = {},
                        !.restart_blob = persistent_state,
                        !.wb_result = "none",
                        !.shutdown_called = FALSE,
                        !.prior_max = env.high_water,
                        !.assigned_high = NeverAssigned,
                        !.told = NeverTold,
                        !.sent_persisted_id = FALSE]
      s1 == RegistrationManagerInit(s0, initial_seqno)
      s2 == IF persistent
            THEN AllocateNewSequenceNumbers(
                   ScheduleOnListenerThread(RegHandleNewSession(s1),
                                            SessionStatusChanged(TRUE)),
                   persistent_state)
            ELSE UpdateMaximumSeqno(s1, seqno_block_size)
  IN [s2 EXCEPT !.ptasks = @ + 1]

\* InvalidationClientImpl::HandleNewSession().
HandleNewSession(s) ==
  LET s1 == RecordImplicitHeartbeat(RegHandleNewSession(s))
      state == TiclState(s1.uniquifier, s1.token, s1.max)
      s2 == WriteState(s1, SerializeState(state), "HandleBestEffortWrite", 0)
  IN ScheduleOnListenerThread(s2, SessionStatusChanged(TRUE))

\* InvalidationClientImpl::HandleLostSession().
HandleLostSession(s) ==
  ScheduleOnListenerThread(RegHandleLostSession(s), SessionStatusChanged(FALSE))

\* Delivery d arrives under the session the client holds.
Received(s, d) ==
  IF d \in DOMAIN s.received_under
  THEN [s EXCEPT !.received_under[d] = s.token]
  ELSE s

\* An invalidation handler that acknowledges on the listener's behalf.
ProcessInvalidationAutoAck(s, invalidation) ==
  LET d == s.next_delivery + 1
  IN [Received(s, d) EXCEPT !.next_delivery = d,
                            !.acks = Append(@, [inv |-> invalidation, d |-> d])]

\* An invalidation handler that knows no invalidate-all object.
ProcessInvalidationNeverAll(s, invalidation) ==
  LET d == s.next_delivery + 1
  IN ScheduleOnListenerThread([Received(s, d) EXCEPT !.next_delivery = d],
                              [callback |-> "Invalidate",
                               arg |-> [inv |-> invalidation, d |-> d]])

\* InvalidationClientImpl::ProcessInvalidation(invalidation): the listener
\* task carries the invalidation and its acknowledgement callback (d names
\* the delivery the callback belongs to).
ProcessInvalidation(s, invalidation) ==
  LET d == s.next_delivery + 1
      oid == invalidation.object_id
      callback == IF oid.source = "INTERNAL" /\ oid.name = INVALIDATE_ALL_OBJECT_NAME
                  THEN "InvalidateAll" ELSE "Invalidate"
  IN ScheduleOnListenerThread([Received(s, d) EXCEPT !.next_delivery = d],
                              [callback |-> callback,
                               arg |-> [inv |-> invalidation, d |-> d]])

RECURSIVE ProcessInvalidations(_, _)
ProcessInvalidations(s, invalidations) ==
  IF invalidations = <<>> THEN s
  ELSE ProcessInvalidations(ProcessInvalidation(s, Head(invalidations)),
                            Tail(invalidations))

\* A HandleObjectControl that dispatches the invalidations first and hands
\* the bundle to the registration manager last.
ObjectControlStepsStatusLast(s, bundle) ==
  [k \in 1 .. Len(bundle.invalidations) + 1 |->
     IF k <= Len(bundle.invalidations)
     THEN ProcessInvalidations(s, SubSeq(bundle.invalidations, 1, k))
     ELSE RegProcessInboundMessage(
            ProcessInvalidations(s, bundle.invalidations), bundle.statuses)]

\* InvalidationClientImpl::HandleObjectControl(bundle), statement by
\* statement: the state after ProcessInboundMessage(bundle), then the state
\* after each turn of the loop over the invalidations.
ObjectControlSteps(s, bundle) ==
  [k \in 1 .. Len(bundle.invalidations) + 1 |->
     ProcessInvalidations(RegProcessInboundMessage(s, bundle.statuses),
                          SubSeq(bundle.invalidations, 1, k - 1))]

\* InvalidationClientImpl::HandleObjectControl(bundle).
HandleObjectControl(s, bundle) ==
  LET steps == ObjectControlSteps(s, bundle)
  IN steps[Len(steps)]

\* An inbound handler that lacks the awaiting-writeback check.
HandleInboundMessageUnguarded(s, m) ==
  LET action == MessageAction(s, m)
      s1 == ProcessMessage(s, m)
  IN CASE action = "ACQUIRE_SESSION" ->
            NetworkHandleInboundMessage(HandleNewSession(s1), m)
       [] action = "LOSE_CLIENT_ID" ->
            NetworkHandleInboundMessage(ForgetClientId(s1), m)
       [] action = "LOSE_SESSION" ->
            NetworkHandleInboundMessage(HandleLostSession(s1), m)
       [] action = "PROCESS_OBJECT_CONTROL" ->
            NetworkHandleInboundMessage(HandleObjectControl(s1, m), m)
       [] OTHER -> s1

\* An inbound handler that leaves the switch on IGNORE_MESSAGE as on the
\* other actions, through the hand-over to the network manager.
HandleInboundMessageIgnoreBreaks(s, m) ==
  IF s.awaiting
  THEN [s EXCEPT !.last_dropped = TRUE]
  ELSE LET action == MessageAction(s, m)
           s1 == ProcessMessage(s, m)
       IN CASE action = "ACQUIRE_SESSION" ->
                 NetworkHandleInboundMessage(HandleNewSession(s1), m)
            [] action = "LOSE_CLIENT_ID" ->
                 NetworkHandleInboundMessage(ForgetClientId(s1), m)
            [] action = "LOSE_SESSION" ->
                 NetworkHandleInboundMessage(HandleLostSession(s1), m)
            [] action = "PROCESS_OBJECT_CONTROL" ->
                 NetworkHandleInboundMessage(HandleObjectControl(s1, m), m)
            [] OTHER ->
                 NetworkHandleInboundMessage(
                   [s1 EXCEPT !.last_ignored = TRUE], m)

\* InvalidationClientImpl::HandleInboundMessage(message).
HandleInboundMessage(s, m) ==
  IF s.awaiting
  THEN [s EXCEPT !.last_dropped = TRUE]
  ELSE LET action == MessageAction(s, m)
           s1 == ProcessMessage(s, m)
       IN CASE action = "ACQUIRE_SESSION" ->
                 NetworkHandleInboundMessage(HandleNewSession(s1), m)
            [] action = "LOSE_CLIENT_ID" ->
                 NetworkHandleInboundMessage(ForgetClientId(s1), m)
            [] action = "LOSE_SESSION" ->
                 NetworkHandleInboundMessage(HandleLostSession(s1), m)
            [] action = "PROCESS_OBJECT_CONTROL" ->
                 NetworkHandleInboundMessage(HandleObjectControl(s1, m), m)
            [] OTHER -> [s1 EXCEPT !.last_ignored = TRUE]

\* A periodic task that schedules its next run as its last statement, so
\* that the early return while awaiting the writeback skips it.
PeriodicTaskReschedulesAtEnd(s) ==
  LET taken == [s EXCEPT !.ptasks = @ - 1]
  IN IF s.awaiting
     THEN taken
     ELSE LET s1 == IF taken.cur > taken.max
                    THEN ForgetClientId(taken) ELSE taken
              have_session_data == SessionHasDataToSend(s1)
              have_registration_data == DoPeriodicRegistrationCheck(s1)
              should_heartbeat_or_poll == NetworkHasDataToSend(s1)
              s2 == IF ~have_session_data /\ ~SessionHasSession(s1)
                    THEN s1
                    ELSE IF have_session_data \/ have_registration_data
                              \/ should_heartbeat_or_poll
                         THEN OutboundDataReady(s1)
                         ELSE s1
          IN [s2 EXCEPT !.ptasks = @ + 1]

\* A periodic task that announces registration data and heartbeats whether
\* or not the client has a session.
PeriodicTaskSignalsWithoutSession(s) ==
  LET rescheduled == [s EXCEPT !.ptasks = (@ - 1) + 1]
  IN IF s.awaiting
     THEN rescheduled
     ELSE LET s1 == IF rescheduled.cur > rescheduled.max
                    THEN ForgetClientId(rescheduled) ELSE rescheduled
              have_session_data == SessionHasDataToSend(s1)
              have_registration_data == DoPeriodicRegistrationCheck(s1)
              should_heartbeat_or_poll == NetworkHasDataToSend(s1)
          IN IF have_session_data \/ have_registration_data
                  \/ should_heartbeat_or_poll
             THEN OutboundDataReady(s1)
             ELSE s1

\* A periodic task that takes the last sequence number of the block for
\* exhaustion.
PeriodicTaskAtLimit(s) ==
  LET rescheduled == [s EXCEPT !.ptasks = (@ - 1) + 1]
  IN IF s.awaiting
     THEN rescheduled
     ELSE LET s1 == IF rescheduled.cur >= rescheduled.max
                    THEN ForgetClientId(rescheduled) ELSE rescheduled
              have_session_data == SessionHasDataToSend(s1)
              have_registration_data == DoPeriodicRegistrationCheck(s1)
              should_heartbeat_or_poll == NetworkHasDataToSend(s1)
          IN IF ~have_session_data /\ ~SessionHasSession(s1)
             THEN s1
             ELSE IF have_session_data \/ have_registration_data
                       \/ should_heartbeat_or_poll
                  THEN OutboundDataReady(s1)
                  ELSE s1

\* A periodic task without the exhaustion check.
PeriodicTaskNeverForgets(s) ==
  LET rescheduled == [s EXCEPT !.ptasks = (@ - 1) + 1]
  IN IF s.awaiting
     THEN rescheduled
     ELSE LET s1 == rescheduled
              have_session_data == SessionHasDataToSend(s1)
              have_registration_data == DoPeriodicRegistrationCheck(s1)
              should_heartbeat_or_poll == NetworkHasDataToSend(s1)
          IN IF ~have_session_data /\ ~SessionHasSession(s1)
             THEN s1
             ELSE IF have_session_data \/ have_registration_data
                       \/ should_heartbeat_or_poll
                  THEN OutboundDataReady(s1)
                  ELSE s1

\* InvalidationClientImpl::PeriodicTask(): the closure is taken off the
\* scheduler and, however the function exits, scheduled again.
PeriodicTask(s) ==
  LET rescheduled == [s EXCEPT !.ptasks = (@ - 1) + 1]
  IN IF s.awaiting
     THEN rescheduled
     ELSE LET s1 == IF rescheduled.cur > rescheduled.max
                    THEN ForgetClientId(rescheduled) ELSE rescheduled
              have_session_data == SessionHasDataToSend(s1)
              have_registration_data == DoPeriodicRegistrationCheck(s1)
              should_heartbeat_or_poll == NetworkHasDataToSend(s1)
          IN IF ~have_session_data /\ ~SessionHasSession(s1)
             THEN s1
             ELSE IF have_session_data \/ have_registration_data
                       \/ should_heartbeat_or_poll
                  THEN OutboundDataReady(s1)
                  ELSE s1

\* InvalidationClientImpl::Register(oid) / Unregister(oid).
Register(s, oid) == SetDesired(s, oid, "REGISTER")
Unregister(s, oid) == SetDesired(s, oid, "UNREGISTER")

\* InvalidationClientImpl::PermanentShutdown().
PermanentShutdown(s) == SessionShutdown(s)

\* InvalidationClientImpl::AcknowledgeInvalidation(invalidation).
AcknowledgeInvalidation(s, entry) ==
  OutboundDataReady([s EXCEPT !.acks = Append(@, entry)])

\* InvalidationClientImpl::ScheduleAcknowledgeInvalidation(invalidation).
ScheduleAcknowledgeInvalidation(s, entry) ==
  [s EXCEPT !.itasks = Append(@, entry)]

Reverse(seq) == [i \in 1..Len(seq) |-> seq[Len(seq) + 1 - i]]

Min(a, b) == IF a < b THEN a ELSE b

\* A message that takes its acknowledgements from the front of the queue.
OutboundMessageOldestFirst(s) ==
  LET session_type == SessionActionType(s)
      message_type == IF session_type = "NONE" THEN "TYPE_OBJECT_CONTROL"
                      ELSE session_type
      register_operation == IF session_type = "NONE" THEN RegisterOperations(s)
                            ELSE <<>>
      room == max_ops_per_message - Len(register_operation)
      n == IF message_type = "TYPE_OBJECT_CONTROL" /\ room > 0
           THEN Min(Len(s.acks), room) ELSE 0
  IN [message_type |-> message_type,
      uniquifier |-> s.uniquifier,
      session_token |-> s.token,
      register_operation |-> register_operation,
      acked_invalidation |-> SubSeq(s.acks, 1, n),
      heartbeat |-> (message_type = "TYPE_OBJECT_CONTROL" /\ s.hb_due),
      has_client_type |-> TRUE,
      \* the state the message was built in
      awaiting |-> s.awaiting,
      cur |-> s.cur,
      max |-> s.max,
      shutdown_called |-> s.shutdown_called,
      shutdown_sent |-> s.shutdown_sent]

\* A message whose acknowledgements are counted against
\* max_ops_per_message without the registration ops.
OutboundMessageAcksUncounted(s) ==
  LET session_type == SessionActionType(s)
      message_type == IF session_type = "NONE" THEN "TYPE_OBJECT_CONTROL"
                      ELSE session_type
      register_operation == IF session_type = "NONE" THEN RegisterOperations(s)
                            ELSE <<>>
      room == max_ops_per_message
      n == IF message_type = "TYPE_OBJECT_CONTROL" /\ room > 0
           THEN Min(Len(s.acks), room) ELSE 0
  IN [message_type |-> message_type,
      uniquifier |-> s.uniquifier,
      session_token |-> s.token,
      register_operation |-> register_operation,
      acked_invalidation |->
        Reverse(SubSeq(s.acks, Len(s.acks) - n + 1, Len(s.acks))),
      heartbeat |-> (message_type = "TYPE_OBJECT_CONTROL" /\ s.hb_due),
      has_client_type |-> TRUE,
      \* the state the message was built in
      awaiting |-> s.awaiting,
      cur |-> s.cur,
      max |-> s.max,
      shutdown_called |-> s.shutdown_called,
      shutdown_sent |-> s.shutdown_sent]

\* A message the registration manager is never asked to add to.
OutboundMessageSessionOnly(s) ==
  LET session_type == SessionActionType(s)
      message_type == session_type
      register_operation == IF session_type = "NONE" THEN RegisterOperations(s)
                            ELSE <<>>
      room == max_ops_per_message - Len(register_operation)
      n == IF message_type = "TYPE_OBJECT_CONTROL" /\ room > 0
           THEN Min(Len(s.acks), room) ELSE 0
  IN [message_type |-> message_type,
      uniquifier |-> s.uniquifier,
      session_token |-> s.token,
      register_operation |-> register_operation,
      acked_invalidation |->
        Reverse(SubSeq(s.acks, Len(s.acks) - n + 1, Len(s.acks))),
      heartbeat |-> (message_type = "TYPE_OBJECT_CONTROL" /\ s.hb_due),
      has_client_type |-> TRUE,
      \* the state the message was built in
      awaiting |-> s.awaiting,
      cur |-> s.cur,
      max |-> s.max,
      shutdown_called |-> s.shutdown_called,
      shutdown_sent |-> s.shutdown_sent]

\* The message InvalidationClientImpl::TakeOutboundMessage builds in state s.
OutboundMessage(s) ==
  LET session_type == SessionActionType(s)
      message_type == IF session_type = "NONE" THEN "TYPE_OBJECT_CONTROL"
                      ELSE session_type
      register_operation == IF session_type = "NONE" THEN RegisterOperations(s)
                            ELSE <<>>
      room == max_ops_per_message - Len(register_operation)
      n == IF message_type = "TYPE_OBJECT_CONTROL" /\ room > 0
           THEN Min(Len(s.acks), room) ELSE 0
  IN [message_type |-> message_type,
      uniquifier |-> s.uniquifier,
      session_token |-> s.token,
      register_operation |-> register_operation,
      acked_invalidation |->
        Reverse(SubSeq(s.acks, Len(s.acks) - n + 1, Len(s.acks))),
      heartbeat |-> (message_type = "TYPE_OBJECT_CONTROL" /\ s.hb_due),
      has_client_type |-> TRUE,
      \* the state the message was built in
      awaiting |-> s.awaiting,
      cur |-> s.cur,
      max |-> s.max,
      shutdown_called |-> s.shutdown_called,
      shutdown_sent |-> s.shutdown_sent]

AckedDeliveries(message) ==
  {message.acked_invalidation[i].d : i \in DOMAIN message.acked_invalidation}

\* A TakeOutboundMessage that copies from the back of the queue and pops
\* from its front.
TakeOutboundMessagePopsFront(s) ==
  LET message == OutboundMessage(s)
      s1 == AddSessionAction(s)
      n == Len(message.acked_invalidation)
  IN [s1 EXCEPT
        !.hb_due = IF message.message_type = "TYPE_OBJECT_CONTROL" THEN FALSE ELSE @,
        !.acks = SubSeq(@, n + 1, Len(@)),
        !.signalled = FALSE,
        !.wire_acks = [d \in DOMAIN @ |->
                         @[d] + Cardinality({i \in DOMAIN message.acked_invalidation :
                                               message.acked_invalidation[i].d = d})],
        !.sent_persisted_id = @ \/ (s.restart_blob # NoBlob
                                      /\ message.uniquifier = s.restart_blob.uniquifier),
        !.last_out = message]

\* InvalidationClientImpl::TakeOutboundMessage(&serialized).
TakeOutboundMessage(s) ==
  LET message == OutboundMessage(s)
      s1 == AddSessionAction(s)
      n == Len(message.acked_invalidation)
  IN [s1 EXCEPT
        !.hb_due = IF message.message_type = "TYPE_OBJECT_CONTROL" THEN FALSE ELSE @,
        !.acks = SubSeq(@, 1, Len(@) - n),
        !.signalled = FALSE,
        !.wire_acks = [d \in DOMAIN @ |->
                         @[d] + Cardinality({i \in DOMAIN message.acked_invalidation :
                                               message.acked_invalidation[i].d = d})],
        !.sent_persisted_id = @ \/ (s.restart_blob # NoBlob
                                      /\ message.uniquifier = s.restart_blob.uniquifier),
        !.last_out = message]

(***************************************************************************)
(* The environment's inputs.                                               *)
(***************************************************************************)
Invalidation(oid, version) == [object_id |-> oid, version |-> version]

ServerMessage(type, u, t, statuses, invalidations, delay) ==
  [message_type |-> type, uniquifier |-> u, token |-> t,
   statuses |-> statuses, invalidations |-> invalidations,
   next_message_delay |-> delay, polling_interval |-> delay]

\* A value no uniquifier or token of the client equals.
Foreign == -1

\* Registration-status lists a bundle may carry: none, or one entry for a
\* known object: success or failure for its current op_seqno, or success
\* for an earlier one.
StatusLists(s) ==
  {<<>>} \cup
  UNION { { <<[oid |-> o, op_seqno |-> s.regs[o].op_seqno, success |-> TRUE]>>,
            <<[oid |-> o, op_seqno |-> s.regs[o].op_seqno, success |-> FALSE]>>,
            <<[oid |-> o, op_seqno |-> s.regs[o].op_seqno - 1, success |-> TRUE]>> } :
          o \in {x \in Oids : s.regs[x].desired # "NONE"} }

InvalidationLists(s) ==
  {<<>>} \cup
  IF s.next_delivery < MaxDeliveries
  THEN { <<Invalidation(o, 1)>> : o \in InvalidationObjectIds }
  ELSE {}

\* The messages the network may hand to HandleInboundMessage in state s.
InboundMessages(s) ==
  { ServerMessage("MALFORMED", 0, 0, <<>>, <<>>, 0) }
  \cup (IF s.next_id <= MaxIds
        THEN { ServerMessage("ASSIGN_CLIENT_ID", s.next_id, s.next_id, <<>>, <<>>, 0) }
             \cup { ServerMessage("UPDATE_SESSION", u, s.next_id, <<>>, <<>>, 0) :
                      u \in {s.uniquifier, Foreign} }
        ELSE {})
  \cup { ServerMessage("INVALIDATE_CLIENT_ID", u, 0, <<>>, <<>>, 0) :
           u \in {s.uniquifier, Foreign} }
  \cup { ServerMessage("INVALIDATE_SESSION", 0, t, <<>>, <<>>, 0) :
           t \in {s.token, Foreign} }
  \cup { ServerMessage("OBJECT_CONTROL", 0, Foreign, <<>>, <<>>, 0) }
  \cup { ServerMessage("OBJECT_CONTROL", 0, s.token, st, inv, delay) :
           st \in StatusLists(s), inv \in InvalidationLists(s), delay \in {0, 2} }

\* The messages that carry no interval.
ControlMessages(s) == {m \in InboundMessages(s) : m.next_message_delay = 0}

\* The messages that carry no invalidation and no interval.
SessionMessages(s) == {m \in ControlMessages(s) : m.invalidations = <<>>}

(***************************************************************************)
(* Actions: one per operation of the client and of its environment.        *)
(***************************************************************************)
Step(s) == Commit(s) /\ UNCHANGED <<throttleVars, opVars, stormVars, lockVars>>

\* The application calls Register(oid).
RegisterCall ==
  \E oid \in Oids :
    /\ app_calls < MaxCalls
    /\ Step(Register([State EXCEPT !.app_calls = @ + 1], oid))

\* The application calls Unregister(oid).
UnregisterCall ==
  \E oid \in Oids :
    /\ app_calls < MaxCalls
    /\ Step(Unregister([State EXCEPT !.app_calls = @ + 1], oid))

\* The application calls PermanentShutdown().
PermanentShutdownCall ==
  \E s \in {PermanentShutdown([State EXCEPT !.shutdown_called = TRUE])} : Step(s)

\* The network hands message m to HandleInboundMessage; a fresh token the
\* client took over is used up.
Deliver(m) ==
  LET s1 == HandleInboundMessage(State, m)
  IN /\ Len(s1.lqueue) <= MaxQueue
     /\ Len(s1.writes) <= MaxQueue
     /\ Step([s1 EXCEPT !.next_id =
                IF s1.token = State.next_id THEN @ + 1 ELSE @])

\* The network hands a message to HandleInboundMessage.
InboundMessage == \E m \in InboundMessages(State) : Deliver(m)

\* The same, for a server that leaves the intervals alone.
InboundControlMessage == \E m \in ControlMessages(State) : Deliver(m)

\* The same, for a server that sends no invalidation either.
InboundSessionMessage == \E m \in SessionMessages(State) : Deliver(m)

\* Messages that are not for this client as it is now: malformed ones, and
\* ones for another client or another session, each loaded with a
\* registration status, an invalidation and new intervals.
StrayMessages(s) ==
  { ServerMessage(type, 0, Foreign, st, <<Invalidation(o, 1)>>, 2) :
      type \in {"MALFORMED", "OBJECT_CONTROL"}, st \in StatusLists(s),
      o \in InvalidationObjectIds }
  \cup { ServerMessage("UPDATE_SESSION", Foreign, s.next_id, <<>>, <<>>, 2),
          ServerMessage("INVALIDATE_CLIENT_ID", Foreign, 0, <<>>, <<>>, 2),
          ServerMessage("INVALIDATE_SESSION", 0, Foreign, <<>>, <<>>, 2) }

\* The messages by which the server grants a client id or a session.
GrantMessages(s) ==
  {m \in SessionMessages(s) : MessageAction(s, m) = "ACQUIRE_SESSION"}

\* The server grants the client id or session the client lacks.
ServerGrants == \E m \in GrantMessages(State) : Deliver(m)

\* The network hands over a message that is not for this client.
InboundStrayMessage == \E m \in StrayMessages(State) : Deliver(m)

\* The answer of a cooperative server to the outbound message 'message': it
\* grants the client id or session asked for and reports success for every
\* registration op, with the op's op_seqno.
CooperativeAnswer(s, message) ==
  CASE message.message_type = "TYPE_ASSIGN_CLIENT_ID" ->
         ServerMessage("ASSIGN_CLIENT_ID", s.next_id, s.next_id, <<>>, <<>>, 0)
    [] message.message_type = "TYPE_UPDATE_SESSION" ->
         ServerMessage("UPDATE_SESSION", message.uniquifier, s.next_id, <<>>, <<>>, 0)
    [] OTHER ->
         ServerMessage("OBJECT_CONTROL", 0, message.session_token,
                       [i \in DOMAIN message.register_operation |->
                          [oid |-> message.register_operation[i].oid,
                           op_seqno |-> message.register_operation[i].op_seqno,
                           success |-> TRUE]],
                       <<>>, 0)

\* The cooperative server's answer to the message just sent reaches
\* HandleInboundMessage.
CooperativeReply ==
  /\ last_out # NoMessage
  /\ last_out.message_type # "TYPE_SHUTDOWN"
  /\ last_out.message_type # "TYPE_OBJECT_CONTROL" => next_id <= MaxIds
  /\ \E m \in {CooperativeAnswer([next_id |-> next_id], last_out)} : Deliver(m)

\* The server sends an invalidation to the session the client holds.
ServerInvalidates ==
  /\ SessionHasSession(State)
  /\ \E invalidations \in InvalidationLists(State) \ {<<>>} :
       \E m \in {ServerMessage("OBJECT_CONTROL", 0, session_token, <<>>,
                               invalidations, 0)} : Deliver(m)

\* The outbound listener, told that data is ready, calls
\* TakeOutboundMessage().
TakeWhenSignalled ==
  /\ outbound_signalled
  /\ \E s \in {TakeOutboundMessage(State)} : Step(s)

\* The application calls TakeOutboundMessage().
TakeOutbound == \E s \in {TakeOutboundMessage(State)} : Step(s)

\* The scheduler runs the periodic task.
PeriodicTick ==
  /\ periodic_tasks > 0
  /\ Step(PeriodicTask(State))

\* The persistence layer commits (or fails) the oldest write and runs its
\* callback.
WriteCompletes ==
  /\ pending_writes # <<>>
  /\ \E success \in BOOLEAN :
       LET w == Head(pending_writes)
           s1 == [State EXCEPT !.writes = Tail(@),
                               !.storage = IF success THEN w.bytes ELSE @]
       IN Step(IF w.callback = "HandleSeqnoWritebackResult"
               THEN HandleSeqnoWritebackResult(s1, w.arg, success)
               ELSE HandleBestEffortWrite(s1, success))

\* The scheduler runs the oldest AcknowledgeInvalidation task.
RunAckTask ==
  /\ internal_tasks # <<>>
  /\ Step(AcknowledgeInvalidation([State EXCEPT !.itasks = Tail(@)],
                                  Head(internal_tasks)))

\* The listener thread runs its oldest task; an Invalidate / InvalidateAll
\* hands the listener the acknowledgement callback.
ListenerRuns ==
  /\ listener_queue # <<>>
  /\ LET task == Head(listener_queue)
     IN Step([State EXCEPT
                !.lqueue = Tail(@),
                !.held = IF task.callback \in {"Invalidate", "InvalidateAll"}
                         THEN @ \cup {task.arg} ELSE @])

\* The listener runs an acknowledgement callback it holds.
ListenerAcks ==
  \E entry \in held_callbacks :
    /\ ack_calls[entry.d] < MaxAckCalls
    /\ Step(ScheduleAcknowledgeInvalidation(
              [State EXCEPT !.ack_calls[entry.d] = @ + 1], entry))

\* Time passes: a heartbeat or poll comes due.
HeartbeatComesDue ==
  /\ ~heartbeat_due
  /\ Step([State EXCEPT !.hb_due = TRUE])

\* The process restarts: a new client is constructed from the bytes the
\* application read back (the stored blob, nothing, or garbage).
Restart ==
  /\ incarnation < MaxRestarts
  /\ \E bytes \in {storage, EmptyBytes, MalformedBytes} :
       Step(Constructor([State EXCEPT !.incarnation = @ + 1], bytes))

\* The state a first client is constructed from: nothing stored, no history.
BlankEnvironment ==
  [ awaiting |-> FALSE, acks |-> <<>>, sstate |-> "NO_CLIENT_ID",
    uniquifier |-> 0, token |-> 0, shutdown_sent |-> FALSE,
    regs |-> [o \in Oids |-> NoRecord], cur |-> 0, max |-> 0,
    hb_due |-> FALSE, hb_interval |-> 1, poll_interval |-> 1,
    signalled |-> FALSE, storage |-> EmptyBytes, writes |-> <<>>,
    itasks |-> <<>>, ptasks |-> 0, lqueue |-> <<>>, held |-> {},
    ack_calls |-> [d \in 1..MaxDeliveries |-> 0],
    received_under |-> [d \in 1..MaxDeliveries |-> 0],
    next_delivery |-> 0, next_id |-> 1, incarnation |-> 0,
    restart_blob |-> NoBlob, wb_result |-> "none", app_calls |-> 0,
    shutdown_called |-> FALSE,
    high_water |-> [u \in 1..MaxIds |-> 0],
    prior_max |-> [u \in 1..MaxIds |-> 0],
    assigned_high |-> NeverAssigned,
    told |-> NeverTold,
    sent_persisted_id |-> FALSE,
    wire_acks |-> [d \in 1..MaxDeliveries |-> 0],
    last_assigned |-> NoAssignment,
    last_dropped |-> FALSE,
    last_ignored |-> FALSE,
    last_forgot |-> FALSE,
    last_out |-> NoMessage ]

InitialState == Constructor(BlankEnvironment, EmptyBytes)

\* The client is in state s.
ClientIs(s) ==
  /\ awaiting_seqno_writeback_ = s.awaiting
  /\ pending_invalidation_acks_ = s.acks
  /\ session_state = s.sstate
  /\ client_uniquifier = s.uniquifier
  /\ session_token = s.token
  /\ shutdown_sent = s.shutdown_sent
  /\ registrations_ = s.regs
  /\ current_op_seqno_ = s.cur
  /\ maximum_op_seqno_inclusive_ = s.max
  /\ heartbeat_due = s.hb_due
  /\ heartbeat_interval = s.hb_interval
  /\ polling_interval = s.poll_interval
  /\ outbound_signalled = s.signalled
  /\ storage = s.storage
  /\ pending_writes = s.writes
  /\ internal_tasks = s.itasks
  /\ periodic_tasks = s.ptasks
  /\ listener_queue = s.lqueue
  /\ held_callbacks = s.held
  /\ ack_calls = s.ack_calls
  /\ received_under = s.received_under
  /\ next_delivery = s.next_delivery
  /\ next_id = s.next_id
  /\ incarnation = s.incarnation
  /\ restart_blob = s.restart_blob
  /\ writeback_result = s.wb_result
  /\ app_calls = s.app_calls
  /\ shutdown_called = s.shutdown_called
  /\ high_water = s.high_water
  /\ prior_max = s.prior_max
  /\ assigned_high = s.assigned_high
  /\ status_told = s.told
  /\ sent_persisted_id = s.sent_persisted_id
  /\ wire_acks = s.wire_acks
  /\ last_assigned = s.last_assigned
  /\ last_dropped = s.last_dropped
  /\ last_ignored = s.last_ignored
  /\ last_forgot = s.last_forgot
  /\ last_out = s.last_out

ClientInit ==
  /\ awaiting_seqno_writeback_ = InitialState.awaiting
  /\ pending_invalidation_acks_ = InitialState.acks
  /\ session_state = InitialState.sstate
  /\ client_uniquifier = InitialState.uniquifier
  /\ session_token = InitialState.token
  /\ shutdown_sent = InitialState.shutdown_sent
  /\ registrations_ = InitialState.regs
  /\ current_op_seqno_ = InitialState.cur
  /\ maximum_op_seqno_inclusive_ = InitialState.max
  /\ heartbeat_due = InitialState.hb_due
  /\ heartbeat_interval = InitialState.hb_interval
  /\ polling_interval = InitialState.poll_interval
  /\ outbound_signalled = InitialState.signalled
  /\ storage = InitialState.storage
  /\ pending_writes = InitialState.writes
  /\ internal_tasks = InitialState.itasks
  /\ periodic_tasks = InitialState.ptasks
  /\ listener_queue = InitialState.lqueue
  /\ held_callbacks = InitialState.held
  /\ ack_calls = InitialState.ack_calls
  /\ received_under = InitialState.received_under
  /\ next_delivery = InitialState.next_delivery
  /\ next_id = InitialState.next_id
  /\ incarnation = InitialState.incarnation
  /\ restart_blob = InitialState.restart_blob
  /\ writeback_result = InitialState.wb_result
  /\ app_calls = InitialState.app_calls
  /\ shutdown_called = InitialState.shutdown_called
  /\ high_water = InitialState.high_water
  /\ prior_max = InitialState.prior_max
  /\ assigned_high = InitialState.assigned_high
  /\ status_told = InitialState.told
  /\ sent_persisted_id = InitialState.sent_persisted_id
  /\ wire_acks = InitialState.wire_acks
  /\ last_assigned = InitialState.last_assigned
  /\ last_dropped = InitialState.last_dropped
  /\ last_ignored = InitialState.last_ignored
  /\ last_forgot = InitialState.last_forgot
  /\ last_out = InitialState.last_out

(***************************************************************************)
(* The threads of the program and the lock.  A call is entered            *)
(* ("at_lock"), passes MutexLock m(&lock_) when the lock is free           *)
(* ("in_body"), runs its body and returns, releasing the lock.             *)
(***************************************************************************)
\* Two application threads and the internal (scheduler) thread.
AppThreads == {"app1", "app2"}
Threads == AppThreads \cup {"internal"}

\* The member functions that begin with MutexLock m(&lock_).
LockedOperationsButAck ==
  { "Register", "Unregister", "PermanentShutdown", "RegisterOutboundListener",
    "HandleInboundMessage", "TakeOutboundMessage", "PeriodicTask",
    "HandleSeqnoWritebackResult" }

LockedOperations ==
  { "Register", "Unregister", "PermanentShutdown", "RegisterOutboundListener",
    "HandleInboundMessage", "TakeOutboundMessage", "PeriodicTask",
    "HandleSeqnoWritebackResult", "AcknowledgeInvalidation" }

NoArg == [none |-> TRUE]

Idle == [phase |-> "idle", op |-> "none", arg |-> NoArg]

\* The messages the network hands over in this scenario: addressed to the
\* client, without registration statuses or intervals.
AddressedMessages(s) ==
  { m \in ControlMessages(s) :
      /\ m.statuses = <<>>
      /\ m.uniquifier # Foreign
      /\ m.token # Foreign
      /\ m.message_type # "MALFORMED" }

\* InvalidationClientImpl::RegisterOutboundListener(outbound_message_ready):
\* the callback is handed to the network manager; the application of this
\* model is that listener, whichever callback object stands for it.
RegisterOutboundListener(s) == s

\* The body of operation op with argument arg, run in state s.
Body(s, op, arg) ==
  CASE op = "Register" -> Register(s, arg.oid)
    [] op = "Unregister" -> Unregister(s, arg.oid)
    [] op = "PermanentShutdown" ->
         PermanentShutdown([s EXCEPT !.shutdown_called = TRUE])
    [] op = "RegisterOutboundListener" -> RegisterOutboundListener(s)
    [] op = "HandleInboundMessage" ->
         LET s1 == HandleInboundMessage(s, arg)
         IN [s1 EXCEPT !.next_id = IF s1.token = s.next_id THEN @ + 1 ELSE @]
    [] op = "TakeOutboundMessage" -> TakeOutboundMessage(s)
    [] op = "PeriodicTask" -> PeriodicTask(s)
    [] op = "HandleSeqnoWritebackResult" ->
         HandleSeqnoWritebackResult(s, arg.arg, arg.success)
    [] op = "AcknowledgeInvalidation" -> AcknowledgeInvalidation(s, arg)

LockCommit(s, lock, pc) ==
  /\ Commit(s)
  /\ lock_' = lock
  /\ thread_pc' = pc
  /\ UNCHANGED <<throttleVars, opVars, stormVars>>

Enters(thread, op, arg) ==
  [thread_pc EXCEPT ![thread] = [phase |-> "at_lock", op |-> op, arg |-> arg]]

\* The threads that are handing an invalidation to HandleInboundMessage.
InvalidationsInFlight ==
  { thread \in Threads :
      /\ thread_pc[thread].op = "HandleInboundMessage"
      /\ thread_pc[thread].arg.invalidations # <<>> }

\* An application thread calls one of the public member functions.
ApplicationCalls ==
  \E thread \in AppThreads :
    /\ thread_pc[thread].phase = "idle"
    /\ app_calls < MaxCalls
    /\ LET s == [State EXCEPT !.app_calls = @ + 1]
       IN \/ \E oid \in Oids, op \in {"Register", "Unregister"} :
               LockCommit(s, lock_, Enters(thread, op, [oid |-> oid]))
          \/ \E op \in {"PermanentShutdown", "RegisterOutboundListener",
                         "TakeOutboundMessage"} :
               LockCommit(s, lock_, Enters(thread, op, NoArg))
          \/ \E m \in AddressedMessages(State) :
               /\ m.invalidations # <<>> => InvalidationsInFlight = {}
               /\ LockCommit(s, lock_,
                             Enters(thread, "HandleInboundMessage", m))

\* The scheduler takes the periodic task, or the oldest
\* AcknowledgeInvalidation task, and runs it on the internal thread.
SchedulerRuns ==
  /\ thread_pc["internal"].phase = "idle"
  /\ \/ /\ periodic_tasks > 0
        /\ LockCommit(State, lock_, Enters("internal", "PeriodicTask", NoArg))
     \/ /\ internal_tasks # <<>>
        /\ LockCommit([State EXCEPT !.itasks = Tail(@)], lock_,
                      Enters("internal", "AcknowledgeInvalidation",
                             Head(internal_tasks)))

\* The persistence layer finishes the oldest write and runs its callback on
\* the internal thread; HandleBestEffortWrite only logs and returns.
WritebackCompletes ==
  /\ thread_pc["internal"].phase = "idle"
  /\ pending_writes # <<>>
  /\ \E success \in BOOLEAN :
       LET w == Head(pending_writes)
           s == [State EXCEPT !.writes = Tail(@),
                              !.storage = IF success THEN w.bytes ELSE @]
       IN IF w.callback = "HandleSeqnoWritebackResult"
          THEN LockCommit(s, lock_,
                          Enters("internal", "HandleSeqnoWritebackResult",
                                 [arg |-> w.arg, success |-> success]))
          ELSE LockCommit(HandleBestEffortWrite(s, success), lock_, thread_pc)

\* MutexLock m(&lock_): the thread gets past the lock once it is free; a
\* function without the lock runs on at once.
PassesLock ==
  \E thread \in Threads :
    /\ thread_pc[thread].phase = "at_lock"
    /\ IF thread_pc[thread].op \in LockedOperations
       THEN /\ lock_ = "none"
            /\ LockCommit(State, thread,
                          [thread_pc EXCEPT ![thread].phase = "in_body"])
       ELSE LockCommit(State, lock_,
                       [thread_pc EXCEPT ![thread].phase = "in_body"])

\* The body runs and the function returns; ~MutexLock releases the lock.
RunsBodyAndReturns ==
  \E thread \in Threads :
    /\ thread_pc[thread].phase = "in_body"
    /\ LockCommit(Body(State, thread_pc[thread].op, thread_pc[thread].arg),
                  IF lock_ = thread THEN "none" ELSE lock_,
                  [thread_pc EXCEPT ![thread] = Idle])

\* No thread is inside the client.
NoCalls ==
  /\ lock_ = "none"
  /\ thread_pc = [thread \in Threads |-> Idle]

\* What was persisted by an earlier run of the process: a client id 1 with
\* session token 1 and the first block of sequence numbers.
PersistedBlob == SerializeState(TiclState(1, 1, seqno_block_size))

RestartEnvironment ==
  [BlankEnvironment EXCEPT !.storage = PersistedBlob, !.next_id = 2,
                           !.incarnation = 1]

\* The throttle of the client's network manager, idle.
ThrottleIdle ==
  /\ rate_limits_ = <<RateLimit(1, 1), RateLimit(4, 2)>>
  /\ recent_event_times_ = <<>>
  /\ timer_scheduled_ = FALSE
  /\ current_time_ = 0
  /\ work_queue_ = <<>>
  /\ call_times = <<>>
  /\ swallowed = 0
  /\ last_fire = "none"

Init ==
  ClientInit /\ ThrottleIdle /\ OperationSchedulerInit /\ StormOff /\ NoCalls

\* A client constructed fresh, or restarted from the persisted blob.
InitThreads ==
  /\ \E s \in { InitialState, Constructor(RestartEnvironment, PersistedBlob) } :
       ClientIs(s)
  /\ NoCalls
  /\ ThrottleIdle
  /\ OperationSchedulerInit
  /\ StormOff

NextThreads ==
  \/ ApplicationCalls
  \/ SchedulerRuns
  \/ WritebackCompletes
  \/ PassesLock
  \/ RunsBodyAndReturns
  \/ ListenerRuns
  \/ ListenerAcks

SpecThreads == InitThreads /\ [][NextThreads]_vars

(***************************************************************************)
(* The outbound message for any pending set and any ack backlog: the       *)
(* client has a session, up to MaxPending objects were registered before   *)
(* the server granted it (their ops are pending), up to MaxBacklog         *)
(* invalidations were delivered and acknowledged by the listener, and      *)
(* some of the AcknowledgeInvalidation tasks have run.                     *)
(***************************************************************************)
ObjectNames == <<"a", "b", "c", "d", "e">>

\* n objects registered: in the order of their names, or in the reverse.
RegistrationTables ==
  { [o \in {ObjectNames[i] : i \in 1 .. n} |->
       LET i == CHOOSE k \in 1 .. n : ObjectNames[k] = o
       IN [desired |-> "REGISTER", confirmed |-> "UNKNOWN",
           op_seqno |-> IF reversed THEN kFirstSequenceNumber + n - i
                        ELSE kFirstSequenceNumber + i - 1,
           pending |-> TRUE]] :
      n \in 0 .. MaxPending, reversed \in BOOLEAN }

\* The acknowledgement of the i-th delivery.
AckEntry(i) ==
  [inv |-> Invalidation([source |-> "USER", name |-> "a"], i), d |-> i]

OutboundStates ==
  { [InitialState EXCEPT
       !.sstate = "HAVE_SESSION", !.uniquifier = 1, !.token = 1, !.next_id = 2,
       !.regs = table,
       !.cur = kFirstSequenceNumber + Cardinality(DOMAIN table),
       !.acks = [i \in 1 .. queued |-> AckEntry(i)],
       !.itasks = [i \in 1 .. (delivered - queued) |-> AckEntry(queued + i)],
       !.held = {AckEntry(i) : i \in 1 .. delivered},
       !.next_delivery = delivered,
       !.hb_due = due] :
      table \in RegistrationTables, delivered \in 0 .. MaxBacklog,
      queued \in 0 .. MaxBacklog, due \in BOOLEAN }

InitOutbound ==
  /\ \E s \in {o \in OutboundStates : o.next_delivery >= Len(o.acks)} :
       ClientIs(s)
  /\ NoCalls
  /\ ThrottleIdle
  /\ OperationSchedulerInit
  /\ StormOff

NextOutbound ==
  \/ TakeOutbound
  \/ RunAckTask
  \/ HeartbeatComesDue

SpecOutbound == InitOutbound /\ [][NextOutbound]_vars

(***************************************************************************)
(* A busy server and a slow application: invalidations keep arriving and   *)
(* being acknowledged, and the application takes a message only when more  *)
(* acknowledgements are queued than the message has room for.              *)
(***************************************************************************)
\* The acknowledgements a message built in state s has room for.
Room(s) == max_ops_per_message - Len(RegisterOperations(s))

\* One more invalidation was delivered and acknowledged, and its
\* AcknowledgeInvalidation task runs.  (Delivery numbers above 1 are used
\* again once their acknowledgement is gone; number 1 is the oldest.)
NewerAckArrives ==
  /\ Len(pending_invalidation_acks_) < MaxBacklog
  /\ \E i \in 2 .. MaxBacklog :
       /\ \A k \in DOMAIN pending_invalidation_acks_ :
            pending_invalidation_acks_[k] # AckEntry(i)
       /\ Step(AcknowledgeInvalidation(
                 [State EXCEPT !.held = @ \cup {AckEntry(i)}], AckEntry(i)))

TakeWhenBacklogged ==
  /\ Len(pending_invalidation_acks_) > Room(State)
  /\ \E s \in {TakeOutboundMessage(State)} : Step(s)

InitStarve ==
  /\ \E s \in {o \in OutboundStates :
                  /\ o.acks # <<>>
                  /\ o.itasks = <<>>
                  /\ Room(o) > 0} :
       ClientIs(s)
  /\ NoCalls
  /\ ThrottleIdle
  /\ OperationSchedulerInit
  /\ StormOff

NextStarve ==
  \/ NewerAckArrives
  \/ TakeWhenBacklogged
  \/ HeartbeatComesDue

SpecStarve ==
  /\ InitStarve
  /\ [][NextStarve]_vars
  /\ WF_vars(NewerAckArrives)
  /\ WF_vars(TakeWhenBacklogged)

\* The client, fresh or restarted, with an application that registers,
\* unregisters and shuts down, and a server that grants ids and sessions and
\* says nothing else: the periodic task in each state it can find.
NextTick ==
  \/ RegisterCall
  \/ UnregisterCall
  \/ PermanentShutdownCall
  \/ ServerGrants
  \/ TakeOutbound
  \/ PeriodicTick
  \/ HeartbeatComesDue
  \/ WriteCompletes
  \/ ListenerRuns

SpecTick == InitThreads /\ [][NextTick]_vars

Next ==
  \/ RegisterCall
  \/ UnregisterCall
  \/ PermanentShutdownCall
  \/ InboundMessage
  \/ TakeOutbound
  \/ PeriodicTick
  \/ WriteCompletes
  \/ RunAckTask
  \/ ListenerRuns
  \/ ListenerAcks
  \/ HeartbeatComesDue
  \/ Restart

Spec == Init /\ [][Next]_vars

(***************************************************************************)
(* A server whose object-control bundles are loaded: each answers a        *)
(* registration op and carries two invalidations.                          *)
(***************************************************************************)
LoadedBundles(s) ==
  { ServerMessage("OBJECT_CONTROL", 0, s.token, st,
                  <<Invalidation(o1, 2), Invalidation(o2, 1)>>, 0) :
      st \in StatusLists(s) \ {<<>>},
      o1 \in InvalidationObjectIds, o2 \in InvalidationObjectIds }

\* The network hands a loaded bundle to HandleInboundMessage.
BundleArrives ==
  /\ next_delivery + 2 <= MaxBundled
  /\ \E m \in LoadedBundles(State) :
       \E s \in {HandleInboundMessage(State, m)} : Step(s)

NextBundle ==
  \/ RegisterCall
  \/ UnregisterCall
  \/ ServerGrants
  \/ BundleArrives
  \/ TakeOutbound
  \/ PeriodicTick
  \/ WriteCompletes
  \/ ListenerRuns

SpecBundle == Init /\ [][NextBundle]_vars

\* The client with an application that registers and unregisters and a
\* server that manages the session and answers registration ops: with
\* success or failure for the current op, or with success for an earlier one.
NextStatus ==
  \/ RegisterCall
  \/ UnregisterCall
  \/ InboundSessionMessage
  \/ TakeOutbound
  \/ PeriodicTick
  \/ WriteCompletes
  \/ ListenerRuns

SpecStatus == Init /\ [][NextStatus]_vars

\* The client with an application that registers and restarts and a server
\* that manages the session and confirms registrations.
NextSeqno ==
  \/ RegisterCall
  \/ InboundSessionMessage
  \/ TakeOutbound
  \/ PeriodicTick
  \/ WriteCompletes
  \/ ListenerRuns
  \/ Restart

SpecSeqno == Init /\ [][NextSeqno]_vars

\* The client on a network that also hands over messages meant for other
\* clients and messages that do not parse.
NextStray ==
  \/ RegisterCall
  \/ InboundSessionMessage
  \/ InboundStrayMessage
  \/ TakeOutbound
  \/ PeriodicTick
  \/ WriteCompletes
  \/ ListenerRuns

SpecStray == Init /\ [][NextStray]_vars

\* The client with a server that sends invalidations and a listener that
\* acknowledges them.
NextAcks ==
  \/ InboundControlMessage
  \/ TakeOutbound
  \/ PeriodicTick
  \/ WriteCompletes
  \/ ListenerRuns
  \/ ListenerAcks
  \/ RunAckTask

SpecAcks == Init /\ [][NextAcks]_vars

\* The client with a cooperative server: the application makes its calls,
\* every message taken is answered, ticks, the listener thread and the
\* persistence layer keep running.
NextLive ==
  \/ RegisterCall
  \/ UnregisterCall
  \/ PeriodicTick
  \/ TakeWhenSignalled
  \/ CooperativeReply
  \/ ListenerRuns
  \/ WriteCompletes

SpecLive ==
  /\ Init
  /\ [][NextLive]_vars
  /\ WF_vars(PeriodicTick)
  /\ WF_vars(TakeWhenSignalled)
  /\ SF_vars(CooperativeReply)
  /\ WF_vars(ListenerRuns)
  /\ WF_vars(WriteCompletes)

\* The client with a cooperative server that sends invalidations, and a
\* listener that acknowledges them when it chooses to.
NextInvalidate ==
  \/ ServerInvalidates
  \/ CooperativeReply
  \/ TakeWhenSignalled
  \/ PeriodicTick
  \/ HeartbeatComesDue
  \/ ListenerRuns
  \/ ListenerAcks
  \/ RunAckTask
  \/ WriteCompletes

SpecInvalidate ==
  /\ Init
  /\ [][NextInvalidate]_vars
  /\ SF_vars(CooperativeReply)
  /\ WF_vars(TakeWhenSignalled)
  /\ WF_vars(PeriodicTick)
  /\ WF_vars(HeartbeatComesDue)
  /\ WF_vars(ListenerRuns)
  /\ WF_vars(RunAckTask)
  /\ WF_vars(WriteCompletes)

\* The client with an application that shuts it down for good.
NextShutdown ==
  \/ PermanentShutdownCall
  \/ RegisterCall
  \/ InboundSessionMessage
  \/ TakeOutbound
  \/ PeriodicTick
  \/ WriteCompletes
  \/ ListenerRuns

SpecShutdown == Init /\ [][NextShutdown]_vars

\* The operation scheduler on its own.
InitOperationScheduler ==
  OperationSchedulerInit /\ ClientInit /\ ThrottleIdle /\ StormOff /\ NoCalls

SpecOperationScheduler ==
  InitOperationScheduler /\ [][OperationSchedulerNext]_vars

\* The throttle on its own, next to a client nothing happens to.
InitThrottle ==
  ThrottleInit /\ ClientInit /\ OperationSchedulerInit /\ StormOff /\ NoCalls

\* The storm test: a throttle allowing one call per second and six per
\* minute, at the start of the loop.
InitStorm ==
  /\ rate_limits_ = <<RateLimit(UnitsPerSecond, kMessagesPerSecond),
                      RateLimit(UnitsPerMinute, kMessagesPerMinute)>>
  /\ recent_event_times_ = <<>>
  /\ timer_scheduled_ = FALSE
  /\ current_time_ = 0
  /\ work_queue_ = <<>>
  /\ call_times = <<>>
  /\ swallowed = 0
  /\ last_fire = "none"
  /\ duration_minutes \in 1 .. MaxMinutes
  /\ storm_pc = "fire"
  /\ storm_i = 0
  /\ ClientInit
  /\ OperationSchedulerInit
  /\ NoCalls

SpecStorm == InitStorm /\ [][StormNext]_vars

SpecThrottle == InitThrottle /\ [][ThrottleNext]_vars

(***************************************************************************)
(* C1.  Throttle rate limits: for every configured limit (w, c) and every  *)
(* window of length w (the instants t .. t + w - 1, i.e. [t, t + w)), the  *)
(* listener has been invoked at most c times inside the window, whatever   *)
(* the sequence and timing of Fire() calls and of (possibly late) retries. *)
(***************************************************************************)
CallsInWindow(t, w) ==
  Cardinality({k \in DOMAIN call_times : t <= call_times[k] /\ call_times[k] < t + w})

C1_RateLimitsRespected ==
  \A i \in DOMAIN rate_limits_ :
    \A t \in 0..MaxTime :
      CallsInWindow(t, rate_limits_[i].window_size) <= rate_limits_[i].count

\* A two-level throttle that has filled its long window after being
\* throttled by the short one (a retry fired and another one is armed).
C1_Witness ==
  /\ Len(rate_limits_) = 2
  /\ Len(call_times) >= rate_limits_[2].count
  /\ CallsInWindow(call_times[1], rate_limits_[2].window_size) = rate_limits_[2].count
  /\ timer_scheduled_
  /\ work_queue_ # <<>>


(***************************************************************************)
(* C2.  No op_seqno is used twice under one client id across a restart:    *)
(* after a restart from a persisted blob, an op_seqno assigned under the   *)
(* blob's client id is strictly greater than every op_seqno assigned under *)
(* that client id before the restart.                                      *)
(***************************************************************************)
C2_NoSeqnoReuseAcrossRestart ==
  (/\ restart_blob # NoBlob
   /\ last_assigned # NoAssignment
   /\ last_assigned.uniquifier = restart_blob.uniquifier)
  => last_assigned.seqno > prior_max[restart_blob.uniquifier]

(***************************************************************************)
(* C3.  While the initial sequence-number writeback is in flight no        *)
(* outbound message is emitted, a TakeOutboundMessage call of the          *)
(* application included.                                                   *)
(***************************************************************************)
C3_NoOutboundWhileAwaiting ==
  last_out # NoMessage => ~last_out.awaiting

(***************************************************************************)
(* C4.  After a restart from a parseable blob whose writeback reports      *)
(* failure, the client id is forgotten before any outbound message was     *)
(* produced: no message of this run carried the persisted uniquifier.      *)
(***************************************************************************)
C4_FailedWritebackSendsNothingForPersistedId ==
  (restart_blob # NoBlob /\ writeback_result = "failure")
  => (~sent_persisted_id /\ client_uniquifier # restart_blob.uniquifier)

(***************************************************************************)
(* C5.  Whenever TakeOutboundMessage produces a message,                   *)
(* current_op_seqno <= maximum_op_seqno_inclusive.                         *)
(***************************************************************************)
C5_SeqnoWithinLimitAtEmission ==
  last_out # NoMessage => last_out.cur <= last_out.max

(***************************************************************************)
(* C6.  Restart round trip: a restart from a blob with limit L issues a    *)
(* writeback of the same uniquifier and token with limit L + B, which is   *)
(* in flight exactly while awaiting_seqno_writeback_ is set; the maximum   *)
(* L + B (above L) is held only after that writeback reported success,     *)
(* and a failed writeback leaves the client without the persisted id.      *)
(***************************************************************************)
C6_RestartRoundTrip ==
  restart_blob # NoBlob =>
    LET L == restart_blob.sequence_number_limit
        claimed == [bytes |-> SerializeState(
                                TiclState(restart_blob.uniquifier,
                                          restart_blob.session_token,
                                          L + seqno_block_size)),
                    callback |-> "HandleSeqnoWritebackResult",
                    arg |-> L + seqno_block_size]
    IN /\ L + seqno_block_size > L
       /\ awaiting_seqno_writeback_ <=> (writeback_result = "in_flight")
       /\ awaiting_seqno_writeback_ =>
            (pending_writes # <<>> /\ Head(pending_writes) = claimed)
       /\ awaiting_seqno_writeback_ => maximum_op_seqno_inclusive_ = L
       /\ (maximum_op_seqno_inclusive_ = L + seqno_block_size)
            => writeback_result = "success"
       /\ (writeback_result = "success" /\ client_uniquifier = restart_blob.uniquifier)
            => maximum_op_seqno_inclusive_ = L + seqno_block_size
       /\ writeback_result = "failure"
            => client_uniquifier # restart_blob.uniquifier

\* A restarted client whose writeback succeeded holds the new block.
C6_Witness ==
  /\ restart_blob # NoBlob
  /\ writeback_result = "success"
  /\ storage = SerializeState(TiclState(restart_blob.uniquifier,
                                        restart_blob.session_token,
                                        restart_blob.sequence_number_limit
                                          + seqno_block_size))
  /\ maximum_op_seqno_inclusive_ = restart_blob.sequence_number_limit + seqno_block_size

(***************************************************************************)
(* C10.  While the initial writeback is in flight HandleInboundMessage     *)
(* drops whatever message it is given: session state, registrations,       *)
(* sequence counters, ack queue, intervals and the listener's queue are    *)
(* what they were.                                                         *)
(***************************************************************************)
InboundFrame(s) ==
  <<s.sstate, s.uniquifier, s.token, s.shutdown_sent, s.regs, s.cur, s.max,
    s.acks, s.hb_due, s.hb_interval, s.poll_interval, s.lqueue, s.held,
    s.itasks, s.writes, s.storage, s.signalled, s.next_delivery, s.awaiting>>

C10_InboundDroppedWhileAwaiting ==
  awaiting_seqno_writeback_ =>
    \A m \in InboundMessages(State) :
      InboundFrame(HandleInboundMessage(State, m)) = InboundFrame(State)

\* A message the client would act on was handed over and dropped while the
\* writeback was in flight.
C10_Witness ==
  /\ awaiting_seqno_writeback_
  /\ last_dropped
  /\ \E m \in InboundMessages(State) :
       /\ m.invalidations # <<>>
       /\ MessageAction(State, m) = "PROCESS_OBJECT_CONTROL"

(***************************************************************************)
(* C7.  Registration convergence, as stated: with a cooperative server and *)
(* fair ticks and delivery, eventually desired = confirmed for every       *)
(* object the application registered or unregistered, for good.            *)
(***************************************************************************)
DesiredIsConfirmed ==
  \A o \in Oids :
    registrations_[o].desired # "NONE"
      => registrations_[o].desired = registrations_[o].confirmed

C7_ConvergesToConfirmed == <>[]DesiredIsConfirmed

(***************************************************************************)
(* C7, amended.  With a cooperative server and fair ticks and delivery,    *)
(* eventually and for good no registration op is pending, every object     *)
(* the application wants registered is confirmed REGISTER, and every       *)
(* object it wants unregistered is confirmed UNREGISTER or, after a new    *)
(* session reset the confirmations, UNKNOWN.                               *)
(***************************************************************************)
Settled ==
  \A o \in Oids :
    LET rec == registrations_[o]
    IN /\ ~rec.pending
       /\ rec.desired = "REGISTER" => rec.confirmed = "REGISTER"
       /\ rec.desired = "UNREGISTER" => rec.confirmed \in {"UNREGISTER", "UNKNOWN"}

C7_ConvergesToSettled == <>[]Settled

\* All calls made, and the object unregistered last is left UNKNOWN by the
\* session that followed the exhaustion of the sequence numbers.
C7_Witness ==
  /\ app_calls = MaxCalls
  /\ Settled
  /\ \E o \in Oids : /\ registrations_[o].desired = "UNREGISTER"
                     /\ registrations_[o].confirmed = "UNKNOWN"
  /\ session_state = "HAVE_SESSION"

(***************************************************************************)
(* C8.  Each delivery to the listener is acked at most once on the wire,   *)
(* however the listener uses the ack callback.                             *)
(***************************************************************************)
C8_AckedAtMostOnce ==
  \A d \in DOMAIN wire_acks : wire_acks[d] <= 1

(***************************************************************************)
(* C9.  An acked-invalidation entry is in an outbound message only after   *)
(* the invalidation was delivered to the listener and the listener ran     *)
(* the ack callback for it: the client never acks on its own.              *)
(***************************************************************************)
C9_AckOnlyAfterListenerAck ==
  /\ \A d \in DOMAIN wire_acks : wire_acks[d] <= ack_calls[d]
  /\ last_out # NoMessage =>
       \A i \in DOMAIN last_out.acked_invalidation :
         LET entry == last_out.acked_invalidation[i]
         IN /\ entry \in held_callbacks
            /\ ack_calls[entry.d] >= 1
            /\ entry.d <= next_delivery

\* A message that carries an acknowledgement.
C9_Witness ==
  /\ last_out # NoMessage
  /\ last_out.acked_invalidation # <<>>
  /\ wire_acks[1] = 1

(***************************************************************************)
(* C11.  PermanentShutdown is terminal: the first message taken after the  *)
(* call is the one TYPE_SHUTDOWN message, and every later message carries  *)
(* no session-level action (it is an object-control message), whatever    *)
(* ticks, calls and messages come in between.                              *)
(***************************************************************************)
C11_ShutdownIsTerminal ==
  (last_out # NoMessage /\ last_out.shutdown_called)
  => IF last_out.shutdown_sent
     THEN last_out.message_type = "TYPE_OBJECT_CONTROL"
     ELSE last_out.message_type = "TYPE_SHUTDOWN"

(***************************************************************************)
(* C12.  OperationScheduler coalescing: for every registered operation at  *)
(* most one future execution is outstanding in the external scheduler, and *)
(* a Schedule(op) call made while op is pending schedules nothing and      *)
(* changes no state.                                                       *)
(***************************************************************************)
Outstanding(operation) ==
  Cardinality({i \in 1 .. Len(scheduled_) :
                 scheduled_[i].operation = operation})

C12_OperationsCoalesce ==
  \A operation \in Operations :
    /\ Outstanding(operation) <= 1
    /\ operations_[operation].is_set =>
         /\ operations_[operation].has_been_scheduled
              <=> Outstanding(operation) = 1
         /\ operations_[operation].has_been_scheduled =>
              \A smeared \in GetSmearedDelay(operations_[operation].delay) :
                ScheduleOperation(OpState, operation, smeared) = OpState

\* Schedule was called for an operation that was pending, and it is still
\* pending with its one callback.
C12_Witness ==
  /\ last_coalesced
  /\ \E operation \in Operations :
       /\ operations_[operation].is_set
       /\ operations_[operation].has_been_scheduled
       /\ Outstanding(operation) = 1

(***************************************************************************)
(* C13.  Throttle coalescing.  As stated: while a deferred retry is armed, *)
(* a Fire() call neither invokes the listener nor arms another retry, and  *)
(* the retry, when it runs, invokes the listener exactly once and leaves   *)
(* nothing armed, so that nothing more is invoked until Fire() is called   *)
(* again.                                                                  *)
(***************************************************************************)
RetryInvokesOnce ==
  /\ call_times' = Append(call_times, current_time_)
  /\ ~timer_scheduled_'
  /\ work_queue_' = <<>>

FireIsSwallowed ==
  /\ call_times' = call_times
  /\ work_queue_' = work_queue_
  /\ timer_scheduled_' = timer_scheduled_

C13_ArmedRetryCoalesces ==
  [][ /\ (timer_scheduled_ /\ Fire) => FireIsSwallowed
      /\ RetryFire => RetryInvokesOnce ]_vars

\* The retry is armed and the instant it was scheduled for has not come.
RetryNotYetDue ==
  /\ timer_scheduled_
  /\ work_queue_ # <<>>
  /\ current_time_ < work_queue_[1]

\* The listener has not been invoked at or after the instant the armed retry
\* was scheduled for.
NotInvokedSinceDue ==
  /\ work_queue_ # <<>>
  /\ call_times # <<>>
  /\ call_times[Len(call_times)] < work_queue_[1]

\* C13 as it holds: the Fire() calls made before the retry's instant are
\* swallowed, and a retry that runs before any later Fire() got through
\* invokes the listener exactly once and leaves nothing armed.
C13_PendingRetryCoalesces ==
  [][ /\ (RetryNotYetDue /\ Fire) => FireIsSwallowed
      /\ (NotInvokedSinceDue /\ RetryFire) => RetryInvokesOnce ]_vars

\* The retry ran and invoked the listener after Fire() calls were dropped.
C13_Witness ==
  /\ last_fire = "retry_invoked"
  /\ swallowed >= 1
  /\ ~timer_scheduled_
  /\ work_queue_ = <<>>

(***************************************************************************)
(* C14.  The throttle does not throttle needlessly: whenever Fire() runs   *)
(* (called directly or by the retry) at an instant at which one more       *)
(* listener call breaks no limit, the first Fire() included, the listener  *)
(* is invoked inside that Fire() and the instant is recorded as a firing   *)
(* time.                                                                   *)
(***************************************************************************)
\* By the listener's own history: every limit (w, c) has fewer than c calls
\* in the w instants ending now.
CallAllowedNow ==
  \A i \in DOMAIN rate_limits_ :
    Cardinality({k \in DOMAIN call_times :
                   current_time_ - call_times[k] < rate_limits_[i].window_size})
      < rate_limits_[i].count

C14_NoNeedlessThrottling ==
  [][ (CallAllowedNow /\ (Fire \/ RetryFire))
        => /\ call_times' = Append(call_times, current_time_)
           /\ recent_event_times_' # <<>>
           /\ recent_event_times_'[Len(recent_event_times_')] = current_time_
    ]_vars

\* Fire() invoked the listener on the spot, not for the first time, while a
\* retry armed earlier was still waiting for the scheduler.
C14_Witness ==
  /\ last_fire = "invoked"
  /\ Len(call_times) >= 2
  /\ timer_scheduled_
  /\ recent_event_times_ # <<>>
  /\ recent_event_times_[Len(recent_event_times_)] = current_time_

(***************************************************************************)
(* C15.  Throttle storm: with Fire() called every 10 ms for D whole        *)
(* minutes under the limits (1 s, 1) and (60 s, 6), and the scheduled      *)
(* retries run as the clock advances, the listener is invoked exactly      *)
(* 6 * D + 1 times (31 for D = 5) and no two invocations are less than one *)
(* second apart.                                                           *)
(***************************************************************************)
C15_Storm ==
  /\ \A k \in 1 .. Len(call_times) - 1 :
       call_times[k + 1] - call_times[k] >= UnitsPerSecond
  /\ storm_pc = "done" =>
       Len(call_times) = kMessagesPerMinute * duration_minutes + 1

\* The five-minute storm of the test has run to its end.
C15_Witness ==
  /\ storm_pc = "done"
  /\ duration_minutes = 5
  /\ storm_i = 30000
  /\ Len(call_times) = 31

(***************************************************************************)
(* C16.  Every invalidation of a processed object-control bundle results   *)
(* in exactly one listener callback: InvalidateAll(ack) if and only if the *)
(* object id has the internal source and the name "ALL", and               *)
(* Invalidate(invalidation, ack) otherwise; and once the listener has      *)
(* invoked that ack, a later outbound message carries an                   *)
(* acked-invalidation entry for it.                                        *)
(***************************************************************************)
\* Bundles of up to two invalidations for the session the client holds.
InvalidationBundles ==
  { ServerMessage("OBJECT_CONTROL", 0, session_token, <<>>, invalidations, 0) :
      invalidations \in
        { <<Invalidation(o, 1)>> : o \in InvalidationObjectIds }
        \cup { <<Invalidation(o1, 1), Invalidation(o2, 2)>> :
                 o1 \in InvalidationObjectIds, o2 \in InvalidationObjectIds } }

\* The listener callback an invalidation has to result in.
ExpectedCallback(invalidation) ==
  IF /\ invalidation.object_id.source = "INTERNAL"
     /\ invalidation.object_id.name = "ALL"
  THEN "InvalidateAll" ELSE "Invalidate"

OneCallbackPerInvalidation ==
  \A m \in InvalidationBundles :
    (~awaiting_seqno_writeback_
       /\ MessageAction(State, m) = "PROCESS_OBJECT_CONTROL")
    => LET after == HandleInboundMessage(State, m).lqueue
           n == Len(m.invalidations)
       IN /\ Len(after) = Len(listener_queue) + n
          /\ SubSeq(after, 1, Len(listener_queue)) = listener_queue
          /\ \A i \in 1 .. n :
               LET task == after[Len(listener_queue) + i]
               IN /\ task.callback = ExpectedCallback(m.invalidations[i])
                  /\ task.arg.inv = m.invalidations[i]
                  /\ \A j \in 1 .. n :
                       after[Len(listener_queue) + j].arg.d = task.arg.d
                         => j = i

UnparseableBlobs ==
  { MalformedBytes, <<"TiclState", 1>>, <<"TiclState", 1, 1, 3, 0>>,
    <<"Other", 1, 1, 3>> }

C17_FreshStart ==
  LET absent == Constructor(State, EmptyBytes)
  IN /\ absent.uniquifier = 0
     /\ absent.token = 0
     /\ absent.sstate = "NO_CLIENT_ID"
     /\ absent.cur = kFirstSequenceNumber
     /\ absent.max = seqno_block_size
     /\ absent.writes = <<>>
     /\ ~absent.awaiting
     /\ \A bytes \in UnparseableBlobs : Constructor(State, bytes) = absent

\* A client restarted fresh although a blob had been stored.
C17_Witness ==
  /\ incarnation >= 1
  /\ storage # EmptyBytes
  /\ restart_blob = NoBlob
  /\ client_uniquifier = 0
  /\ session_token = 0
  /\ current_op_seqno_ = kFirstSequenceNumber
  /\ maximum_op_seqno_inclusive_ = seqno_block_size
  /\ pending_writes = <<>>
  /\ ~awaiting_seqno_writeback_

(***************************************************************************)
(* C18.  Every message TakeOutboundMessage produces has a message type and *)
(* a client type: the two assertions that end the function hold in every   *)
(* reachable state, each being a state the application may call it in.     *)
(***************************************************************************)
MessageTypes ==
  { "TYPE_ASSIGN_CLIENT_ID", "TYPE_UPDATE_SESSION", "TYPE_OBJECT_CONTROL",
    "TYPE_SHUTDOWN" }

InBody == {thread \in Threads : thread_pc[thread].phase = "in_body"}

OneAtATime ==
  /\ Cardinality(InBody) <= 1
  /\ \A thread \in Threads : thread \in InBody <=> lock_ = thread

\* The member variables of the client and of its managers.
CoreState ==
  << awaiting_seqno_writeback_, pending_invalidation_acks_, session_state,
     client_uniquifier, session_token, shutdown_sent, registrations_,
     current_op_seqno_, maximum_op_seqno_inclusive_, heartbeat_due,
     heartbeat_interval, polling_interval, outbound_signalled >>

C19_MutualExclusion ==
  /\ []OneAtATime
  /\ [][ CoreState' # CoreState
          => /\ lock_ \in Threads
             /\ thread_pc[lock_].phase = "in_body"
             /\ thread_pc[lock_].op \in LockedOperations
             /\ thread_pc'[lock_].phase = "idle"
             /\ lock_' = "none" ]_vars

\* One thread is in the body of the ack enqueue while both application
\* threads wait at the lock.
C19_Witness ==
  /\ lock_ = "internal"
  /\ thread_pc["internal"].phase = "in_body"
  /\ thread_pc["internal"].op = "AcknowledgeInvalidation"
  /\ \A thread \in AppThreads : thread_pc[thread].phase = "at_lock"

(***************************************************************************)
(* C20.  A message classified IGNORE_MESSAGE (token mismatch, wrong        *)
(* client, malformed) is dropped with no effect: session state,            *)
(* registration table, ack queue and the heartbeat and polling intervals   *)
(* are what they were, and no listener callback is scheduled.              *)
(***************************************************************************)
IgnoredMessages(s) ==
  { m \in InboundMessages(s) \cup StrayMessages(s) :
      MessageAction(s, m) = "IGNORE_MESSAGE" }

C20_IgnoredMessageHasNoEffect ==
  ~awaiting_seqno_writeback_ =>
    \A m \in IgnoredMessages(State) :
      InboundFrame(HandleInboundMessage(State, m)) = InboundFrame(State)

\* A client with a session and a registration in progress was handed a
\* message it classified IGNORE_MESSAGE, and messages for another session
\* that carry a status for that registration, an invalidation and new
\* intervals are among those it ignores.
C20_Witness ==
  /\ last_ignored
  /\ session_state = "HAVE_SESSION"
  /\ \E m \in IgnoredMessages(State) :
       /\ m.token = Foreign
       /\ m.statuses # <<>>
       /\ m.invalidations # <<>>
       /\ m.next_message_delay # 0

(***************************************************************************)
(* C21.  A failed best-effort write (the one issued when a session is      *)
(* acquired) changes no client state: session, client id, sequence         *)
(* counters, registrations, ack queue, intervals and the scheduled tasks   *)
(* are what they were, as after a successful write.  (A step that leaves   *)
(* the incarnation alone is not a restart of the process.)                 *)
(***************************************************************************)
BestEffortWriteIsOldest ==
  /\ pending_writes # <<>>
  /\ Head(pending_writes).callback = "HandleBestEffortWrite"

ClientFrame ==
  <<CoreState, listener_queue, held_callbacks, internal_tasks, periodic_tasks>>

C21_FailedBestEffortWriteChangesNothing ==
  [][ ( /\ BestEffortWriteIsOldest
          /\ pending_writes' = Tail(pending_writes)
          /\ incarnation' = incarnation )
        => ClientFrame' = ClientFrame ]_vars

\* The first session's state write failed (nothing was ever stored), the
\* client still has the session and went on to send an object-control
\* message.
C21_Witness ==
  /\ session_state = "HAVE_SESSION"
  /\ storage = EmptyBytes
  /\ pending_writes = <<>>
  /\ incarnation = 0
  /\ last_out.message_type = "TYPE_OBJECT_CONTROL"

(***************************************************************************)
(* C22.  OperationScheduler::SetOperation.  As stated: the call fails (a   *)
(* fatal assertion, the operation table unchanged) when the operation is   *)
(* already registered or the delay is not strictly positive, and succeeds  *)
(* otherwise, registering the operation as not pending.                    *)
(***************************************************************************)
Registered(operation, delay) ==
  [operations_ EXCEPT ![operation] =
     [is_set |-> TRUE, delay |-> delay, has_been_scheduled |-> FALSE]]

SetOperationFailsFor(rejected(_, _)) ==
  \A operation \in GivenOperations, delay \in GivenDelays :
    LET o == SetOperation(OpState, delay, operation)
    IN  /\ o.scheduled = scheduled_
        /\ IF rejected(operation, delay)
           THEN o.fatal /\ o.operations = operations_
           ELSE /\ ~o.fatal
                /\ operation \in Operations
                /\ o.operations = Registered(operation, delay)

RegisteredOrNotPositive(operation, delay) ==
  Found(OpState, operation) \/ delay <= 0

C22_SetOperationFails ==
  ~check_failed => SetOperationFailsFor(RegisteredOrNotPositive)

(***************************************************************************)
(* C22, as the code has it: the call also fails when the operation is a    *)
(* null closure; it succeeds in every other case.                          *)
(***************************************************************************)
RegisteredNotPositiveOrNull(operation, delay) ==
  Found(OpState, operation) \/ delay <= 0 \/ operation = NULL

C22_SetOperationFailsAlsoOnNull ==
  ~check_failed => SetOperationFailsFor(RegisteredNotPositiveOrNull)

\* A SetOperation call failed its CHECK after another had registered an
\* operation, which is still in the table, not pending.
C22_Witness ==
  /\ check_failed
  /\ scheduled_ = <<>>
  /\ \E operation \in Operations :
       /\ operations_[operation].is_set
       /\ ~operations_[operation].has_been_scheduled
  /\ \E operation \in Operations : ~operations_[operation].is_set

(***************************************************************************)
(* C23.  Sequence exhaustion: a periodic tick that is not awaiting the     *)
(* writeback forgets the client id if and only if current_op_seqno is      *)
(* above maximum_op_seqno_inclusive; forgetting puts the session in        *)
(* NO_CLIENT_ID, current_op_seqno at kFirstSequenceNumber and the maximum  *)
(* at seqno_block_size.                                                    *)
(***************************************************************************)
C23_TickForgetsExactlyOnExhaustion ==
  ~awaiting_seqno_writeback_ =>
    LET s == PeriodicTask(State)
    IN /\ s.last_forgot <=> current_op_seqno_ > maximum_op_seqno_inclusive_
       /\ IF s.last_forgot
          THEN /\ s.sstate = "NO_CLIENT_ID"
               /\ s.cur = kFirstSequenceNumber
               /\ s.max = seqno_block_size
          ELSE /\ s.sstate = session_state
               /\ s.uniquifier = client_uniquifier
               /\ s.token = session_token
               /\ s.cur = current_op_seqno_
               /\ s.max = maximum_op_seqno_inclusive_

\* A tick forgot the client id the server had granted (no writeback was
\* ever issued for a sequence-number block, and the server of this scenario
\* takes no id back).
C23_Witness ==
  /\ last_forgot
  /\ writeback_result = "none"
  /\ incarnation = 0
  /\ next_id > 1
  /\ session_state = "NO_CLIENT_ID"
  /\ current_op_seqno_ = kFirstSequenceNumber
  /\ maximum_op_seqno_inclusive_ = seqno_block_size

(***************************************************************************)
(* C24.  Exhaustion with seqno_block_size = 2.  As stated: on a fresh      *)
(* client whose register ops get no confirmation from the server,          *)
(* ForgetClientId fires on the tick following the 3rd sequence-number      *)
(* assignment and on no earlier tick, also when ticks run between the      *)
(* register calls.                                                         *)
(***************************************************************************)
FreshClient == incarnation = 0

\* The last step made the k-th sequence-number assignment.
JustAssigned(k) == app_calls = k /\ last_assigned # NoAssignment

TickWouldForget == PeriodicTask(State).last_forgot

C24_ForgetsOnTickAfterThird ==
  /\ [](FreshClient /\ JustAssigned(3) => TickWouldForget)
  /\ [][FreshClient /\ last_forgot' => app_calls = 3]_vars

(***************************************************************************)
(* C24, as the code has it: the first sequence number is 1 and the block   *)
(* ends at 2, so the counter is above the maximum after the 2nd            *)
(* assignment.  ForgetClientId fires on the first tick after the 2nd       *)
(* assignment and on no tick before it; the tick following the 3rd         *)
(* assignment fires it when no tick ran between the 2nd and the 3rd        *)
(* register call, and does not when one did.                               *)
(***************************************************************************)
C24_ForgetsOnTickAfterBlockIsUsed ==
  /\ [](FreshClient /\ JustAssigned(2) => TickWouldForget)
  /\ [](FreshClient /\ JustAssigned(3) =>
          (TickWouldForget <=> last_assigned.seqno = 3))
  /\ [](FreshClient /\ JustAssigned(3) =>
          last_assigned.seqno \in {kFirstSequenceNumber, 3})
  /\ [][FreshClient /\ last_forgot' => app_calls >= 2]_vars

\* Three register ops were made with no tick between the last two (the
\* third was given sequence number 3), and the tick after them forgot the
\* client id.
C24_Witness ==
  /\ FreshClient
  /\ last_forgot
  /\ app_calls = 3
  /\ \E oid \in Oids : registrations_[oid].op_seqno = 3

(***************************************************************************)
(* C25.  Tick send decision: a periodic tick that is not awaiting the      *)
(* writeback signals OutboundDataReady exactly when the session layer has  *)
(* data to send, or the client has a session and a registration op is      *)
(* pending or a heartbeat or poll is due (the session being looked at      *)
(* after the exhaustion check, as the tick does); a tick with no session   *)
(* and no session-level data never signals, even with pending              *)
(* registrations.                                                          *)
(***************************************************************************)
\* The state a tick would leave, had nothing been signalled before it.
TickFromSilence == PeriodicTask([State EXCEPT !.signalled = FALSE])

Exhausted == current_op_seqno_ > maximum_op_seqno_inclusive_

ShouldSignal(s) ==
  \/ SessionHasDataToSend(s)
  \/ /\ SessionHasSession(s)
     /\ PendingOids(s) # {} \/ s.hb_due

C25_TickSendDecision ==
  ~awaiting_seqno_writeback_ =>
    /\ ~Exhausted => (TickFromSilence.signalled <=> ShouldSignal(State))
    /\ Exhausted => TickFromSilence.signalled
    /\ TickFromSilence.signalled <=> ShouldSignal(TickFromSilence)
    /\ PeriodicTask(State).signalled
         <=> (outbound_signalled \/ TickFromSilence.signalled)
    /\ (~SessionHasSession(TickFromSilence)
          /\ ~SessionHasDataToSend(TickFromSilence))
         => ~TickFromSilence.signalled

\* A client that was shut down and has sent its shutdown message has no
\* session and no session-level data; it has a registration op pending, a
\* heartbeat due, and nothing is signalled.
C25_Witness ==
  /\ ~awaiting_seqno_writeback_
  /\ ~SessionHasSession(State)
  /\ ~SessionHasDataToSend(State)
  /\ ~Exhausted
  /\ PendingOids(State) # {}
  /\ heartbeat_due
  /\ ~outbound_signalled

(***************************************************************************)
(* C26.  Every execution of the periodic tick schedules exactly one next   *)
(* tick on every exit path (awaiting the writeback, after ForgetClientId,  *)
(* after shutdown, silent or sending), so from construction onward exactly *)
(* one periodic tick is outstanding at all times.                          *)
(***************************************************************************)
C26_OneTickOutstanding ==
  /\ periodic_tasks = 1
  /\ PeriodicTask(State).ptasks = 1

\* A tick has run on a restarted client that is still awaiting its
\* writeback (a shutdown was asked for meanwhile), and one tick is
\* outstanding.
C26_Witness ==
  /\ awaiting_seqno_writeback_
  /\ shutdown_called
  /\ periodic_tasks = 1
  /\ PeriodicTask(State) = State

(***************************************************************************)
(* C27.  In every outbound OBJECT_CONTROL message the number of            *)
(* registration ops plus the number of acked invalidations is at most      *)
(* max_ops_per_message, for any size of the pending registration set and   *)
(* of the ack backlog.                                                     *)
(***************************************************************************)
Entries(message) ==
  Len(message.register_operation) + Len(message.acked_invalidation)

C27_MessageHoldsAtMostMaxOps ==
  /\ OutboundMessage(State).message_type = "TYPE_OBJECT_CONTROL"
       => Entries(OutboundMessage(State)) <= max_ops_per_message
  /\ last_out.message_type = "TYPE_OBJECT_CONTROL"
       => Entries(last_out) <= max_ops_per_message

\* A message was taken with a registration op and an acknowledgement, full
\* to max_ops_per_message, while more ops were pending than it has room for
\* and acknowledgements stayed behind in the queue.
C27_Witness ==
  /\ last_out.message_type = "TYPE_OBJECT_CONTROL"
  /\ Entries(last_out) = max_ops_per_message
  /\ last_out.register_operation # <<>>
  /\ last_out.acked_invalidation # <<>>
  /\ pending_invalidation_acks_ # <<>>

(***************************************************************************)
(* C28.  The ack queue is consumed last-in-first-out: the acks attached to *)
(* an outbound message are the most recently enqueued pending acks, in     *)
(* reverse order of enqueueing, each removed from the queue when attached; *)
(* all other pending acks stay queued in their original order.             *)
(***************************************************************************)
\* AcknowledgeInvalidation puts its invalidation at the back of the queue.
EnqueuedAtBack ==
  (internal_tasks # <<>> /\ internal_tasks' = Tail(internal_tasks))
    => pending_invalidation_acks_'
         = Append(pending_invalidation_acks_, Head(internal_tasks))

\* A message taken carries the n entries at the back, the last one first,
\* and leaves the others as they were.
TakenFromBack ==
  last_out'.message_type # "NONE" =>
    LET acked == last_out'.acked_invalidation
        n == Len(acked)
        before == pending_invalidation_acks_
    IN /\ n <= Len(before)
       /\ \A i \in 1 .. n : acked[i] = before[Len(before) + 1 - i]
       /\ pending_invalidation_acks_' = SubSeq(before, 1, Len(before) - n)

C28_AckQueueIsLifo == [][EnqueuedAtBack /\ TakenFromBack]_vars

\* A message took the two newest of three acknowledgements, the third
\* enqueued first and the second after it, and the first is still queued.
C28_Witness ==
  /\ last_out.message_type = "TYPE_OBJECT_CONTROL"
  /\ last_out.acked_invalidation = <<AckEntry(3), AckEntry(2)>>
  /\ pending_invalidation_acks_ = <<AckEntry(1)>>

(***************************************************************************)
(* C29.  Ack starvation is possible: when max_ops_per_message is smaller   *)
(* than the ack backlog and new invalidations keep arriving and being      *)
(* acknowledged, there are fair executions in which the oldest pending ack *)
(* is never attached to any outbound message.  In every execution of the   *)
(* busy server and the slow application, which are fair, messages with     *)
(* acknowledgements are taken again and again and the oldest               *)
(* acknowledgement stays at the front of the queue, in no message.         *)
(***************************************************************************)
OldestStays ==
  /\ pending_invalidation_acks_' # <<>>
  /\ pending_invalidation_acks_'[1] = pending_invalidation_acks_[1]
  /\ last_out'.message_type # "NONE" =>
       \A i \in DOMAIN last_out'.acked_invalidation :
         last_out'.acked_invalidation[i] # pending_invalidation_acks_[1]

AcksWereSent ==
  /\ last_out.message_type = "TYPE_OBJECT_CONTROL"
  /\ last_out.acked_invalidation # <<>>

C29_OldestAckStarves ==
  /\ pending_invalidation_acks_ # <<>>
  /\ [][OldestStays]_vars
  /\ []<>AcksWereSent
  /\ [](wire_acks[1] = 0)

\* A message has carried newer acknowledgements away while the oldest one,
\* of the first delivery, is still queued with newer ones behind it.
C29_Witness ==
  /\ AcksWereSent
  /\ pending_invalidation_acks_ # <<>>
  /\ pending_invalidation_acks_[1] = AckEntry(1)
  /\ Len(pending_invalidation_acks_) > 1
  /\ \A i \in DOMAIN last_out.acked_invalidation :
       last_out.acked_invalidation[i].d > 1

(***************************************************************************)
(* C30.  Sequence numbers assigned to registration ops are strictly        *)
(* increasing in order of assignment over the lifetime of a client         *)
(* instance: for any two Register/Unregister calls that each assign an     *)
(* op_seqno, the later call's op_seqno is strictly greater.  (Every        *)
(* assignment is above the largest one the instance made before it.)       *)
(***************************************************************************)
Assigns == last_assigned' # NoAssignment

C30_SeqnosIncreaseOverLifetime ==
  [][Assigns => last_assigned'.seqno > assigned_high.lifetime]_vars

(***************************************************************************)
(* C30, as the code has it: sequence numbers are strictly increasing in    *)
(* order of assignment between two ForgetClientId() of a client instance.  *)
(* Every assignment is above the largest one made since the instance was   *)
(* constructed and since it last forgot its client id; ForgetClientId()    *)
(* puts the counter back to kFirstSequenceNumber, and the counter moves    *)
(* in no other way than up by one per assignment.                          *)
(***************************************************************************)
C30_SeqnosIncreaseBetweenForgets ==
  /\ [][Assigns => /\ last_assigned'.seqno > assigned_high.since_forget
                   /\ last_assigned'.seqno = current_op_seqno_
                   /\ current_op_seqno_' = current_op_seqno_ + 1]_vars
  /\ [][last_forgot' => current_op_seqno_' = kFirstSequenceNumber]_vars
  /\ [][~Assigns /\ ~last_forgot' /\ incarnation' = incarnation
          => current_op_seqno_' = current_op_seqno_]_vars

\* The third of three calls that each assigned has just been given a
\* sequence number above the two before it, with no ForgetClientId() so far.
C30_Witness ==
  /\ last_assigned # NoAssignment
  /\ app_calls = 3
  /\ last_assigned.seqno = kFirstSequenceNumber + 2
  /\ assigned_high = [lifetime |-> kFirstSequenceNumber + 2,
                      since_forget |-> kFirstSequenceNumber + 2]

(***************************************************************************)
(* C31.  A server registration-status entry confirms a record only when    *)
(* it reports success and its (oid, op_seqno) equals the record's current  *)
(* op_seqno: a success answer to an earlier op of the same object leaves   *)
(* confirmed unchanged and the op pending.  In every state, for every      *)
(* object-control bundle the server may send: the bundle changes a record  *)
(* only if it holds a success entry with the record's op_seqno, and then   *)
(* the record is confirmed as desired.                                     *)
(***************************************************************************)
ObjectControlBundles ==
  {m \in SessionMessages(State) :
     ~awaiting_seqno_writeback_ /\ MessageAction(State, m) = "PROCESS_OBJECT_CONTROL"}

\* The entries of bundle m that report success for the current op of oid.
CurrentSuccess(m, oid) ==
  {i \in DOMAIN m.statuses :
     /\ m.statuses[i].oid = oid
     /\ m.statuses[i].success
     /\ m.statuses[i].op_seqno = registrations_[oid].op_seqno}

C31_ConfirmsOnlyCurrentSuccess ==
  \A m \in ObjectControlBundles : \A oid \in Oids :
    LET rec == registrations_[oid]
        after == HandleInboundMessage(State, m).regs[oid]
    IN IF CurrentSuccess(m, oid) # {} /\ rec.pending
       THEN after = [rec EXCEPT !.confirmed = rec.desired, !.pending = FALSE]
       ELSE after = rec

\* Register then Unregister were called before any answer arrived, and the
\* success answer to the Register (op_seqno 1) is among the bundles the
\* client may now be handed; handling it leaves the Unregister pending.
C31_Witness ==
  /\ \E oid \in Oids :
       /\ registrations_[oid] = [registrations_[oid] EXCEPT
                                   !.desired = "UNREGISTER",
                                   !.op_seqno = kFirstSequenceNumber + 1,
                                   !.pending = TRUE]
       /\ registrations_[oid].confirmed # "UNREGISTER"
       /\ \E m \in ObjectControlBundles :
            /\ m.statuses = <<[oid |-> oid, op_seqno |-> kFirstSequenceNumber,
                               success |-> TRUE]>>
            /\ HandleInboundMessage(State, m).regs[oid].pending
  /\ app_calls = 2

(***************************************************************************)
(* C32.  Quiescence after confirmation: once an object's confirmed state   *)
(* equals its desired state, no outbound message carries a                 *)
(* register/unregister op for that object and DoPeriodicRegistrationCheck  *)
(* does not report it, until the next Register/Unregister that changes its *)
(* desired state or the next session acquisition or loss.  (While          *)
(* confirmed equals desired the record is not pending and no message taken *)
(* holds an op for it; and confirmed stops being equal to desired only by  *)
(* a call of the application or a change of the session.)                  *)
(***************************************************************************)
Quiescent(oid) == registrations_[oid].confirmed = registrations_[oid].desired

OpsFor(message, oid) ==
  IF message.message_type = "NONE" THEN {}
  ELSE {i \in DOMAIN message.register_operation :
          message.register_operation[i].oid = oid}

NotReported(oid) ==
  /\ ~registrations_[oid].pending
  /\ oid \notin PendingOids(State)
  /\ (\A other \in Oids \ {oid} : ~registrations_[other].pending)
       => ~DoPeriodicRegistrationCheck(State)

C32_QuiescentAfterConfirmation ==
  /\ [](\A oid \in Oids : Quiescent(oid) => NotReported(oid))
  /\ [][\A oid \in Oids : Quiescent(oid) => OpsFor(last_out', oid) = {}]_vars
  /\ [][\A oid \in Oids :
          Quiescent(oid) /\ ~Quiescent(oid)' =>
            \/ app_calls' # app_calls
            \/ session_state' # session_state
            \/ session_token' # session_token]_vars

\* The server confirmed the registration of an object, and the message
\* taken after that carries no op.
C32_Witness ==
  /\ \E oid \in Oids :
       /\ Quiescent(oid)
       /\ registrations_[oid].desired = "REGISTER"
       /\ registrations_[oid].op_seqno >= kFirstSequenceNumber
  /\ session_state = "HAVE_SESSION"
  /\ last_out.message_type = "TYPE_OBJECT_CONTROL"
  /\ last_out.register_operation = <<>>

(***************************************************************************)
(* C33.  OperationScheduler clears the pending flag before the operation   *)
(* runs: an operation that calls Schedule on itself while it is running    *)
(* gets a new future execution scheduled (it is not coalesced away), and   *)
(* the flag is false during the run.                                       *)
(***************************************************************************)
FlagFalseDuringRun ==
  \A i \in 1 .. Len(scheduled_) :
    ~DuringRun(OpState, i).operations[scheduled_[i].operation].has_been_scheduled

RanAndScheduledItself ==
  last_run'.operation # "none" /\ last_run'.again = last_run'.operation

NewExecutionScheduled ==
  /\ ~last_coalesced'
  /\ operations_'[last_run'.operation].has_been_scheduled
  /\ Len(scheduled_') = Len(scheduled_)
  /\ scheduled_'[Len(scheduled_')].operation = last_run'.operation

ArmsRetry == last_fire' \in {"armed", "retry_armed"} /\ (Fire \/ RetryFire)

\* The c-th newest of the recorded firing times (recent[size-c], counted
\* from 0), as the throttled Fire() leaves them.
CthNewest(i) ==
  recent_event_times_'[Len(recent_event_times_') - rate_limits_[i].count + 1]

Violated ==
  {i \in DOMAIN rate_limits_ :
     /\ Len(recent_event_times_') >= rate_limits_[i].count
     /\ current_time_ - CthNewest(i) < rate_limits_[i].window_size}

ArmedFor == work_queue_'[Len(work_queue_')]

RetryIsDueNow ==
  /\ work_queue_ # <<>>
  /\ work_queue_[NextTaskIndex(work_queue_)] = current_time_

C34_RetryTiming ==
  /\ [][ArmsRetry =>
          /\ Violated # {}
          /\ work_queue_' # <<>>
          /\ \A i \in Violated :
               ArmedFor >= CthNewest(i) + rate_limits_[i].window_size
          /\ \E i \in Violated :
               ArmedFor = CthNewest(i) + rate_limits_[i].window_size
          /\ \A i \in Violated :
               (Violated = {i} /\ Len(call_times) = rate_limits_[i].count)
                 => ArmedFor = call_times[1] + rate_limits_[i].window_size]_vars
  /\ [][call_times' # call_times =>
          \A k \in DOMAIN work_queue_ : current_time_ >= work_queue_[k]]_vars
  /\ [][(RetryIsDueNow /\ RetryFire) =>
          /\ call_times' # <<>>
          /\ call_times'[Len(call_times')] = current_time_]_vars

\* Under the limits (1, 1) and (4, 2) the listener was called at 0 and 1,
\* the Fire() that followed armed a retry for 4 = 0 + 4, and the retry ran
\* at 4 and invoked the listener.
C34_Witness ==
  /\ rate_limits_ = <<RateLimit(1, 1), RateLimit(4, 2)>>
  /\ last_fire = "retry_invoked"
  /\ call_times = <<0, 1, 4>>
  /\ current_time_ = 4
  /\ swallowed = 0

(***************************************************************************)
(* C35.  Within one processed object-control bundle, the                   *)
(* registration-status entries are applied to the registration manager     *)
(* before any invalidation of that bundle is dispatched, and the           *)
(* invalidations are dispatched to the listener executor in the order they *)
(* appear in the bundle.                                                   *)
(***************************************************************************)
\* The loaded bundles the client processes in this state.
ProcessedBundles ==
  {m \in LoadedBundles(State) :
     ~awaiting_seqno_writeback_ /\ MessageAction(State, m) = "PROCESS_OBJECT_CONTROL"}

\* The listener task of an invalidation.
DispatchedAs(task, invalidation) ==
  /\ task.callback \in {"Invalidate", "InvalidateAll"}
  /\ task.arg.inv = invalidation

StatusesThenInvalidationsInOrder(m) ==
  LET steps == ObjectControlSteps(ProcessMessage(State, m), m)
      n == Len(m.invalidations)
      applied == RegProcessInboundMessage(State, m.statuses).regs
  IN /\ Len(steps) = n + 1
     \* the statuses are applied and nothing is dispatched yet
     /\ steps[1].regs = applied
     /\ steps[1].lqueue = listener_queue
     \* then one invalidation after the other is dispatched
     /\ \A i \in 1 .. n :
          /\ steps[i + 1].regs = applied
          /\ Len(steps[i + 1].lqueue) = Len(listener_queue) + i
          /\ SubSeq(steps[i + 1].lqueue, 1, Len(listener_queue) + i - 1)
               = steps[i].lqueue
          /\ DispatchedAs(steps[i + 1].lqueue[Len(listener_queue) + i],
                          m.invalidations[i])
     /\ HandleInboundMessage(State, m).lqueue = steps[n + 1].lqueue
     /\ HandleInboundMessage(State, m).regs = applied

\* A step that dispatches invalidations appends their tasks to the listener
\* executor, in the order of their delivery numbers.
DispatchAppends ==
  next_delivery' > next_delivery =>
    /\ Len(listener_queue') = Len(listener_queue) + (next_delivery' - next_delivery)
    /\ SubSeq(listener_queue', 1, Len(listener_queue)) = listener_queue
    /\ \A i \in 1 .. next_delivery' - next_delivery :
         listener_queue'[Len(listener_queue) + i].arg.d = next_delivery + i

C35_StatusesThenInvalidationsInOrder ==
  /\ [](\A m \in ProcessedBundles : StatusesThenInvalidationsInOrder(m))
  /\ [][DispatchAppends]_vars

\* A bundle that confirmed the registration of an object and carried an
\* invalidate-all followed by an invalidation of an object has just been
\* processed: both tasks wait for the listener, in that order.
C35_Witness ==
  /\ Len(listener_queue) >= 2
  /\ LET n == Len(listener_queue)
     IN /\ DispatchedAs(listener_queue[n - 1],
                        Invalidation([source |-> "INTERNAL",
                                      name |-> INVALIDATE_ALL_OBJECT_NAME], 2))
        /\ listener_queue[n - 1].callback = "InvalidateAll"
        /\ DispatchedAs(listener_queue[n],
                        Invalidation([source |-> "USER", name |-> "a"], 1))
        /\ listener_queue[n].arg.d = listener_queue[n - 1].arg.d + 1
  /\ \E oid \in Oids : /\ registrations_[oid].confirmed = "REGISTER"
                       /\ ~registrations_[oid].pending

(***************************************************************************)
(* C36.  SessionStatusChanged notifications to the listener strictly       *)
(* alternate, starting with true: the listener is never told a session was *)
(* acquired twice without an intervening SessionStatusChanged(false),      *)
(* across persisted restart (with writeback success or failure), session   *)
(* loss, client-id loss and sequence exhaustion.  (Counted per client       *)
(* instance: no notification an instance schedules repeats the one it      *)
(* scheduled before, and its first one is SessionStatusChanged(true).)     *)
(***************************************************************************)
C36_SessionStatusAlternates == ~status_told.repeated

(***************************************************************************)
(* C37.  Every acked-invalidation entry in an outbound OBJECT_CONTROL      *)
(* message is for an invalidation that was received under the session in   *)
(* force when the message is emitted: the pending ack queue never carries  *)
(* an entry over a session loss or client-id loss into a message of a      *)
(* later session.                                                          *)
(***************************************************************************)
C37_AcksBelongToSession ==
  last_out.message_type = "TYPE_OBJECT_CONTROL" =>
    \A i \in DOMAIN last_out.acked_invalidation :
      received_under[last_out.acked_invalidation[i].d] = last_out.session_token

=============================================================================
